---- MODULE Spec2Model ----
(***************************************************************************)
(* jiralert: reconciliation of Alertmanager notifications against JIRA.    *)
(* The model follows pkg/notify/notify.go (Receiver.Notify and helpers)    *)
(* and the ticket backend of pkg/notify/notify_test.go (fakeJira).         *)
(* Strings that the code computes on (labels, descriptions) are sequences  *)
(* of one-character strings; enumerated names are TLA+ strings.            *)
(***************************************************************************)
EXTENDS Integers, Sequences, FiniteSets, TLC

VARIABLES issues, transitionsByID, now, conf, flags, rc, ncalls, nfaults, responses, config

vars == <<issues, transitionsByID, now, conf, flags, rc, ncalls, nfaults, responses, config>>

(***************************************************************************)
(* Bounds of the model.                                                    *)
(***************************************************************************)
MaxCalls == 3
MaxIssues == 3
MaxTime == 3
MaxFlagsOff == 1
MaxFaults == 1

Procs == {1}

Nil == "<nil>"

\* The configuration file before it is read.
NoConfig == [outcome |-> "none"]

(***************************************************************************)
(* Character strings.                                                      *)
(***************************************************************************)
Alphabet == <<" ", "\"", ",", "=", "A", "E", "L", "R", "T", "a", "b", "c", "d", "e", "{", "}">>

Ord(ch) == CHOOSE i \in 1..Len(Alphabet) : Alphabet[i] = ch

RECURSIVE StrLess(_, _)
StrLess(s, t) ==
  IF s = <<>> THEN t # <<>>
  ELSE IF t = <<>> THEN FALSE
  ELSE IF Head(s) = Head(t) THEN StrLess(Tail(s), Tail(t))
  ELSE Ord(Head(s)) < Ord(Head(t))

RECURSIVE Concat(_)
Concat(ss) == IF ss = <<>> THEN <<>> ELSE Head(ss) \o Concat(Tail(ss))

\* fmt %q: the value between double quotes, with quote and backslash escaped.
RECURSIVE Escape(_)
Escape(s) ==
  IF s = <<>> THEN <<>>
  ELSE (IF Head(s) \in {"\"", "\\"} THEN <<"\\", Head(s)>> ELSE <<Head(s)>>) \o Escape(Tail(s))

Quote(s) == <<"\"">> \o Escape(s) \o <<"\"">>

RemoveSpaces(s) == SelectSeq(s, LAMBDA ch : ch # " ")

(***************************************************************************)
(* Alertmanager data.                                                      *)
(***************************************************************************)
AlertFiring == "firing"
AlertResolved == "resolved"

Firing(alerts) == SelectSeq(alerts, LAMBDA a : a = AlertFiring)

RECURSIVE SortedPairs(_)
SortedPairs(kv) ==
  IF DOMAIN kv = {} THEN <<>>
  ELSE LET n == CHOOSE x \in DOMAIN kv : \A y \in DOMAIN kv : y = x \/ StrLess(x, y)
       IN  <<[Name |-> n, Value |-> kv[n]]>>
             \o SortedPairs([m \in DOMAIN kv \ {n} |-> kv[m]])

GroupAB == (<<"a">> :> <<"b">>) @@ (<<"c">> :> <<"d">>)
GroupAE == (<<"a">> :> <<"b">>) @@ (<<"c">> :> <<"e">>)
GroupLabelSets == {GroupAB, GroupAE}

AlertLists == {<<AlertResolved>>, <<AlertFiring, AlertResolved>>, <<AlertFiring, AlertFiring>>}

DataStatus(alerts) == IF Len(Firing(alerts)) > 0 THEN AlertFiring ELSE AlertResolved

Notification(al, gl) == [Status |-> DataStatus(al), Alerts |-> al, GroupLabels |-> gl]

\* Every alert list for the first group; one firing notification of the second.
Notifications ==
  {Notification(al, GroupAB) : al \in AlertLists}
    \cup {Notification(<<AlertFiring, AlertResolved>>, GroupAE)}

(***************************************************************************)
(* Group identity: toGroupTicketLabel.                                     *)
(***************************************************************************)
\* The digest is kept symbolic: a tagged copy of the hashed bytes.
Sha512Hex(bytes) == <<"sha512:">> \o bytes

RECURSIVE KvStrings(_)
KvStrings(pairs) ==
  IF pairs = <<>> THEN <<>>
  ELSE Head(pairs).Name \o <<"=">> \o Quote(Head(pairs).Value) \o <<",">>
         \o KvStrings(Tail(pairs))

toGroupTicketLabel(groupLabels, hashJiraLabel) ==
  IF hashJiraLabel
  THEN <<"J", "I", "R", "A", "L", "E", "R", "T", "{">>
         \o Sha512Hex(KvStrings(SortedPairs(groupLabels))) \o <<"}">>
  ELSE LET buf == <<"A", "L", "E", "R", "T", "{">> \o KvStrings(SortedPairs(groupLabels))
           cut == SubSeq(buf, 1, Len(buf) - 1)
       IN  RemoveSpaces(cut \o <<"}">>)

(***************************************************************************)
(* Template engine: Template.Execute.  A template text is a sequence of    *)
(* tokens; "{{" is the delimiter token.                                    *)
(***************************************************************************)
SummaryTmpl == <<"[", "{{", ".Status|toUpper", "}}", "{{", "if firing", "}}", ":",
                 "{{", ".Alerts.Firing|len", "}}", "{{", "end", "}}", "]">>
DescriptionTmpl == <<"{{", ".Alerts.Firing|len", "}}">>
PriorityTmpl == <<"{{", "if firing", "}}", "High", "{{", "else", "}}", "Low", "{{", "end", "}}">>

ToUpper(status) == IF status = AlertFiring THEN "FIRING" ELSE "RESOLVED"

Contains(text, tok) == \E i \in DOMAIN text : text[i] = tok

Execute(text, data) ==
  IF ~Contains(text, "{{") THEN [out |-> text, err |-> FALSE]
  ELSE IF text = SummaryTmpl
       THEN [out |-> <<"[", ToUpper(data.Status)>>
                       \o (IF data.Status = AlertFiring
                           THEN <<":", ToString(Len(Firing(data.Alerts)))>> ELSE <<>>)
                       \o <<"]">>,
             err |-> FALSE]
  ELSE IF text = DescriptionTmpl
       THEN [out |-> <<ToString(Len(Firing(data.Alerts)))>>, err |-> FALSE]
  ELSE IF text = PriorityTmpl
       THEN [out |-> IF data.Status = AlertFiring THEN <<"High">> ELSE <<"Low">>, err |-> FALSE]
  ELSE IF Len(text) > 3 /\ SubSeq(text, 1, 3) = DescriptionTmpl
            /\ ~Contains(SubSeq(text, 4, Len(text)), "{{")
       THEN [out |-> <<ToString(Len(Firing(data.Alerts)))>> \o SubSeq(text, 4, Len(text)),
             err |-> FALSE]
  ELSE IF Len(text) > 3 /\ SubSeq(text, Len(text) - 2, Len(text)) = DescriptionTmpl
            /\ ~Contains(SubSeq(text, 1, Len(text) - 3), "{{")
       THEN [out |-> SubSeq(text, 1, Len(text) - 3) \o <<ToString(Len(Firing(data.Alerts)))>>,
             err |-> FALSE]
  ELSE [out |-> <<>>, err |-> TRUE]

\* A text that does not parse or execute.
BadTmpl == <<"{{", ".Alerts.Firing|nosuchfunction", "}}">>

(***************************************************************************)
(* deepCopyWithTemplate.  A value of the fields map is a string, a slice,  *)
(* a map (a sequence of entries, whose keys may be strings or not) or any  *)
(* other value.                                                            *)
(***************************************************************************)
String(text) == [kind |-> "string", text |-> text, items |-> <<>>]
Slice(items) == [kind |-> "slice", text |-> <<>>, items |-> items]
Map(entries) == [kind |-> "map", text |-> <<>>, items |-> entries]
Other(v) == [kind |-> "other", text |-> v, items |-> <<>>]
Entry(key, isString, val) == [key |-> key, isString |-> isString, val |-> val]

RECURSIVE deepCopyWithTemplate(_, _)
deepCopyWithTemplate(value, data) ==
  CASE value.kind = "string" ->
         LET e == Execute(value.text, data) IN [out |-> String(e.out), err |-> e.err]
    [] value.kind = "slice" ->
         LET converted == [i \in DOMAIN value.items |->
                             deepCopyWithTemplate(value.items[i], data)]
         IN  [out |-> Slice([i \in DOMAIN converted |-> converted[i].out]),
              err |-> \E i \in DOMAIN converted : converted[i].err]
    [] value.kind = "map" ->
         LET keys == SelectSeq(value.items, LAMBDA en : en.isString)
             strKey == [i \in DOMAIN keys |-> Execute(keys[i].key, data)]
             converted == [i \in DOMAIN keys |-> deepCopyWithTemplate(keys[i].val, data)]
         IN  [out |-> Map([i \in DOMAIN keys |->
                             Entry(strKey[i].out, TRUE, converted[i].out)]),
              err |-> \E i \in DOMAIN keys : strKey[i].err \/ converted[i].err]
    [] OTHER -> [out |-> value, err |-> FALSE]

(***************************************************************************)
(* Receiver configuration and the arguments of Notify.                     *)
(* An optional value (a Go pointer) is a sequence of length 0 or 1.        *)
(***************************************************************************)
ReopenState == "reopened"
WontFix == "won't-fix"
ResolutionDone == "done"
AutoResolveDone == [State |-> "Done"]

Configs ==
  [Project : {<<"abc">>},
   OtherProjects : {<<>>},
   IssueType : {<<"Bug">>},
   Summary : {SummaryTmpl},
   Description : {DescriptionTmpl},
   Priority : {PriorityTmpl},
   ReopenState : {ReopenState},
   ReopenDuration : {0, 1},
   WontFixResolution : {WontFix},
   StaticLabels : {<<>>},
   AddGroupLabels : {FALSE},
   Components : {<<>>},
   Fields : {<<>>},
   AutoResolve : {<<>>, <<AutoResolveDone>>},
   UpdateInComment : BOOLEAN]

defaultMaxDescriptionLength == 32767

\* The flags of cmd/jiralert with their defaults; updatePriority is the last
\* parameter of Notify.
DefaultFlags ==
  [hashJiraLabel |-> FALSE, updateSummary |-> TRUE, updateDescription |-> TRUE,
   reopenTickets |-> TRUE, maxDescriptionLength |-> defaultMaxDescriptionLength,
   updatePriority |-> TRUE]

BoolFlags == {"hashJiraLabel", "updateSummary", "updateDescription", "reopenTickets",
              "updatePriority"}

Flags ==
  {f \in [hashJiraLabel : BOOLEAN, updateSummary : BOOLEAN, updateDescription : BOOLEAN,
          reopenTickets : BOOLEAN, maxDescriptionLength : {defaultMaxDescriptionLength},
          updatePriority : BOOLEAN] :
     Cardinality({n \in BoolFlags : f[n] # DefaultFlags[n]}) <= MaxFlagsOff}

(***************************************************************************)
(* The ticket backend: fakeJira.  iss is issuesByKey, a key being the      *)
(* position of its issue.                                                  *)
(***************************************************************************)
Range(s) == {s[i] : i \in DOMAIN s}

NotDone == "NotDone"

EmptyIssue ==
  [Key |-> 0, Project |-> <<>>, Summary |-> <<>>, Description |-> <<>>, Priority |-> <<>>,
   Labels |-> <<>>, Status |-> Nil, Resolution |-> <<>>, Resolutiondate |-> 0,
   Comments |-> <<>>, Unknowns |-> <<>>]

\* A variant of Matches: the label is left out of the query.
Matches_AnyLabel(iss, projects, issueLabel) ==
  {k \in DOMAIN iss : iss[k].Project \in Range(projects)}

\* The JQL of Receiver.search: project in (projects) and labels = issueLabel.
Matches(iss, projects, issueLabel) ==
  {k \in DOMAIN iss :
     iss[k].Project \in Range(projects) /\ issueLabel \in Range(iss[k].Labels)}

\* fakeJira.Search: order by resolutiondate desc (the zero time sorts last); the
\* sort is not stable, so any match of greatest resolution date may come first.
SearchFirst(iss, projects, issueLabel) ==
  LET m == Matches(iss, projects, issueLabel)
  IN  {k \in m : \A j \in m : iss[j].Resolutiondate <= iss[k].Resolutiondate}

FakeCreate(iss, issue) ==
  Append(iss, [issue EXCEPT !.Key = Len(iss) + 1, !.Status = NotDone])

FakeUpdateWithOptions(iss, key, old) ==
  [iss EXCEPT ![key] =
     [@ EXCEPT !.Summary = IF old.Summary # <<>> THEN old.Summary ELSE @,
               !.Description = IF old.Description # <<>> THEN old.Description ELSE @]]

\* The backend keeps the priority an update carries.
FakeUpdatePriority(iss, key, old) ==
  [iss EXCEPT ![key].Priority = IF old.Priority # <<>> THEN old.Priority ELSE @]

FakeAddComment(iss, key, body) ==
  [iss EXCEPT ![key].Comments = Append(@, body)]

FakeDoTransition(iss, key, transitionID) ==
  [iss EXCEPT ![key].Status = transitionsByID[transitionID].Name]

\* handleJiraErrResponse: resp is NoResponse when no response was received.
NoResponse == 0
StatusOK == 200
FailureResponses == {NoResponse, 503}

handleJiraErrResponse_AnyServerError(resp) == resp # NoResponse /\ resp \div 100 = 5

handleJiraErrResponse(resp) ==
  IF resp # NoResponse /\ resp \div 100 # 2
  THEN resp = 500 \/ resp = 503 \/ resp = 429
  ELSE FALSE

(***************************************************************************)
(* Receiver.Notify.  r holds the arguments, the locals and the backend     *)
(* calls of one reconcile; r.pc names the backend call it is about to      *)
(* issue.                                                                  *)
(***************************************************************************)
IdleRec ==
  [pc |-> "idle", data |-> [Status |-> AlertResolved, Alerts |-> <<>>, GroupLabels |-> <<>>],
   project |-> <<>>, label |-> <<>>, nmatch |-> 0, found |-> 0, hit |-> EmptyIssue, key |-> 0,
   summary |-> <<>>, priority |-> <<>>, desc |-> <<>>, target |-> Nil,
   calls |-> <<>>, retry |-> FALSE, err |-> Nil, errArgs |-> <<>>, redelivery |-> FALSE,
   status |-> 0, start |-> <<>>]

Call(op, key, arg, resp) ==
  [op |-> op, key |-> key, arg |-> arg, ok |-> resp = StatusOK, resp |-> resp]

MutatingOps == {"Create", "UpdateSummary", "UpdateDescription", "UpdatePriority",
                "AddComment", "DoTransition"}

NumFiring(r) == Len(Firing(r.data.Alerts))

\* A variant of TooOld: the window test reads After where the code reads Before.
TooOld_After(issue, dur, t) ==
  issue.Resolutiondate # 0 /\ issue.Resolutiondate + dur > t /\ dur # 0

\* A variant of TooOld: a reopen duration of zero is a window of no length.
TooOld_ZeroIsAWindow(issue, dur, t) ==
  issue.Resolutiondate # 0 /\ issue.Resolutiondate + dur < t

\* findIssueToReuse: a resolved issue is too old to reopen.
TooOld(issue, dur, t) ==
  issue.Resolutiondate # 0 /\ issue.Resolutiondate + dur < t /\ dur # 0

\* A variant of projectsToSearch: the other projects are left out.
projectsToSearch_MainOnly(project, c) == <<project>>

projectsToSearch(project, c) ==
  <<project>> \o SelectSeq(c.OtherProjects, LAMBDA other : other # project)

Truncate(d, maxLen) == IF Len(d) > maxLen THEN SubSeq(d, 1, maxLen) ELSE d

\* A variant of NeedSummary: the flag is not looked at.
NeedSummary_Ungated(r, f) == r.hit.Summary # r.summary

NeedSummary(r, f) == f.updateSummary /\ r.hit.Summary # r.summary

\* A variant of NeedComment: the most recent comment is not looked at.
NeedComment_IgnoresLastComment(r, c) ==
  c.UpdateInComment /\ ~(Len(r.hit.Comments) = 0 /\ r.hit.Description = r.desc)

\* A variant of NeedComment: the comparison is made with the description as the
\* description update of this reconcile leaves it.
NeedComment_AfterDescriptionUpdate(r, c) ==
  LET numComments == Len(r.hit.Comments)
      description == IF flags.updateDescription THEN r.desc ELSE r.hit.Description
  IN  /\ c.UpdateInComment
      /\ ~(numComments > 0 /\ r.hit.Comments[numComments] = r.desc)
      /\ ~(numComments = 0 /\ description = r.desc)

NeedComment(r, c) ==
  LET numComments == Len(r.hit.Comments)
  IN  /\ c.UpdateInComment
      /\ ~(numComments > 0 /\ r.hit.Comments[numComments] = r.desc)
      /\ ~(numComments = 0 /\ r.hit.Description = r.desc)

NeedDescription(r, f) == f.updateDescription /\ r.hit.Description # r.desc

NeedPriority(r, f) ==
  f.updatePriority /\ r.hit.Priority # <<>> /\ r.hit.Priority[1] # r.priority

\* A variant of IsWontFix: every resolution counts as the won't-fix resolution.
IsWontFix_AnyResolution(issue, c) == c.WontFixResolution # "" /\ issue.Resolution # <<>>

IsWontFix(issue, c) ==
  c.WontFixResolution # "" /\ issue.Resolution # <<>>
    /\ issue.Resolution[1] = c.WontFixResolution

Done(r, retry, err) == [r EXCEPT !.pc = "done", !.retry = retry, !.err = err]

\* A variant of AfterSync: the won't-fix resolution is not looked at.
AfterSync_ReopensExempt(r, c, f) ==
  IF NumFiring(r) = 0
  THEN IF c.AutoResolve # <<>>
       THEN [r EXCEPT !.pc = "GetTransitions", !.target = c.AutoResolve[1].State]
       ELSE Done(r, FALSE, Nil)
  ELSE IF r.hit.Status # "done" THEN Done(r, FALSE, Nil)
  ELSE IF f.reopenTickets
       THEN [r EXCEPT !.pc = "GetTransitions", !.target = c.ReopenState]
       ELSE Done(r, FALSE, Nil)

\* A variant of AfterSync: reopenTickets is not looked at.
AfterSync_IgnoresReopenFlag(r, c, f) ==
  IF NumFiring(r) = 0
  THEN IF c.AutoResolve # <<>>
       THEN [r EXCEPT !.pc = "GetTransitions", !.target = c.AutoResolve[1].State]
       ELSE Done(r, FALSE, Nil)
  ELSE IF r.hit.Status # "done" THEN Done(r, FALSE, Nil)
  ELSE IF IsWontFix(r.hit, c) THEN Done(r, FALSE, Nil)
  ELSE [r EXCEPT !.pc = "GetTransitions", !.target = c.ReopenState]

\* Lines 153-186: what follows the field synchronisation of a reused issue.
AfterSync(r, c, f) ==
  IF NumFiring(r) = 0
  THEN IF c.AutoResolve # <<>>
       THEN [r EXCEPT !.pc = "GetTransitions", !.target = c.AutoResolve[1].State]
       ELSE Done(r, FALSE, Nil)
  ELSE IF r.hit.Status # "done" THEN Done(r, FALSE, Nil)
  ELSE IF f.reopenTickets
       THEN IF IsWontFix(r.hit, c) THEN Done(r, FALSE, Nil)
            ELSE [r EXCEPT !.pc = "GetTransitions", !.target = c.ReopenState]
       ELSE Done(r, FALSE, Nil)

\* A variant of SyncFrom: with no firing alert the fields are left as they are.
SyncFrom_SkipsWhenResolved(r, stage, c, f) ==
  IF NumFiring(r) = 0 THEN AfterSync(r, c, f)
  ELSE IF stage <= 1 /\ NeedSummary(r, f) THEN [r EXCEPT !.pc = "UpdateSummary"]
  ELSE IF stage <= 2 /\ NeedComment(r, c) THEN [r EXCEPT !.pc = "AddComment"]
  ELSE IF stage <= 3 /\ NeedDescription(r, f) THEN [r EXCEPT !.pc = "UpdateDescription"]
  ELSE IF stage <= 4 /\ NeedPriority(r, f) THEN [r EXCEPT !.pc = "UpdatePriority"]
  ELSE AfterSync(r, c, f)

\* Lines 99-151: the next call of the field synchronisation, in the code's order.
SyncFrom(r, stage, c, f) ==
  IF stage <= 1 /\ NeedSummary(r, f) THEN [r EXCEPT !.pc = "UpdateSummary"]
  ELSE IF stage <= 2 /\ NeedComment(r, c) THEN [r EXCEPT !.pc = "AddComment"]
  ELSE IF stage <= 3 /\ NeedDescription(r, f) THEN [r EXCEPT !.pc = "UpdateDescription"]
  ELSE IF stage <= 4 /\ NeedPriority(r, f) THEN [r EXCEPT !.pc = "UpdatePriority"]
  ELSE AfterSync(r, c, f)

\* A variant of NoIssue: the firing alerts are not counted.
NoIssue_AlwaysCreates(r) == [r EXCEPT !.pc = "Create"]

\* Lines 188-193: no issue to reuse.
NoIssue(r) ==
  IF NumFiring(r) = 0 THEN Done(r, FALSE, Nil) ELSE [r EXCEPT !.pc = "Create"]

\* A variant of AfterLookup: an issue resolved as won't fix is not reused.
AfterLookup_ExemptAsAbsent(r, c, f) ==
  LET s == Execute(c.Summary, r.data)
      p == Execute(c.Priority, r.data)
      d == Execute(c.Description, r.data)
      r2 == [r EXCEPT !.summary = s.out, !.priority = p.out,
                      !.desc = Truncate(d.out, f.maxDescriptionLength)]
  IN  IF s.err \/ p.err \/ d.err THEN Done(r, FALSE, "render")
      ELSE IF r.key # 0 /\ ~(r.hit.Status = "done" /\ IsWontFix(r.hit, c))
           THEN SyncFrom(r2, 1, c, f)
      ELSE NoIssue(r2)

\* Lines 79-99: the renderings after the lookup, then the branch on the issue.
AfterLookup(r, c, f) ==
  LET s == Execute(c.Summary, r.data)
      p == Execute(c.Priority, r.data)
      d == Execute(c.Description, r.data)
      r2 == [r EXCEPT !.summary = s.out, !.priority = p.out,
                      !.desc = Truncate(d.out, f.maxDescriptionLength)]
  IN  IF s.err \/ p.err \/ d.err THEN Done(r, FALSE, "render")
      ELSE IF r.key # 0 THEN SyncFrom(r2, 1, c, f)
      ELSE NoIssue(r2)

\* A variant of NewIssueLabels: the group's label is left out.
NewIssueLabels_StaticOnly(r, c) == c.StaticLabels

\* A variant of NewIssueLabels: the label is computed again, always hashed.
NewIssueLabels_HashedAnew(r, c) ==
  c.StaticLabels \o <<toGroupTicketLabel(r.data.GroupLabels, TRUE)>>

\* Lines 195-244: the issue sent to Create.
NewIssueLabels(r, c) ==
  c.StaticLabels \o <<r.label>>
    \o (IF c.AddGroupLabels
        THEN [i \in 1..Len(SortedPairs(r.data.GroupLabels)) |->
                SortedPairs(r.data.GroupLabels)[i].Name \o <<"=">>
                  \o Quote(Truncate(SortedPairs(r.data.GroupLabels)[i].Value, 200))]
        ELSE <<>>)

NewIssue(r, c) ==
  [EmptyIssue EXCEPT !.Project = r.project, !.Description = r.desc, !.Summary = r.summary,
                     !.Labels = NewIssueLabels(r, c),
                     !.Priority = IF c.Priority # <<>>
                                  THEN <<Execute(c.Priority, r.data).out>> ELSE <<>>,
                     !.Unknowns = [i \in DOMAIN c.Fields |->
                                     [key |-> c.Fields[i].key,
                                      val |-> deepCopyWithTemplate(c.Fields[i].val,
                                                                   r.data).out]]]

\* A variant of CreateRenderFails: the fields map is not looked at.
CreateRenderFails_SkipsFields(r, c) ==
  \/ Execute(c.IssueType, r.data).err
  \/ c.Priority # <<>> /\ Execute(c.Priority, r.data).err
  \/ \E i \in DOMAIN c.Components : Execute(c.Components[i], r.data).err

CreateRenderFails(r, c) ==
  \/ Execute(c.IssueType, r.data).err
  \/ c.Priority # <<>> /\ Execute(c.Priority, r.data).err
  \/ \E i \in DOMAIN c.Components : Execute(c.Components[i], r.data).err
  \/ \E i \in DOMAIN c.Fields : deepCopyWithTemplate(c.Fields[i].val, r.data).err

\* Lines 65-72: the project, the group label and the state before the lookup.
Begin(data, c, f, redelivery) ==
  LET pr == Execute(c.Project, data)
      r == [IdleRec EXCEPT !.data = data, !.project = pr.out,
                           !.label = toGroupTicketLabel(data.GroupLabels, f.hashJiraLabel),
                           !.redelivery = redelivery]
  IN  IF pr.err THEN Done(r, FALSE, "render") ELSE [r EXCEPT !.pc = "Search"]

Logged(r, op, key, arg, resp) == [r EXCEPT !.calls = Append(@, Call(op, key, arg, resp))]

\* A variant of Fail: the failure is logged and the call is issued again.
Fail_IssuesCallAgain(r, op, key, arg, resp) == Logged(r, op, key, arg, resp)

Fail(r, op, key, arg, resp) ==
  Done(Logged(r, op, key, arg, resp), handleJiraErrResponse(resp), "jira")

\* A variant of DoSearch: every returned issue is weighed, and the first one
\* that is not too old is reused.
DoSearch_WeighsEveryMatch(m, resp, pick, c, f) ==
  LET r == m.r
      fresh == {k \in Matches(m.iss, projectsToSearch(r.project, c), r.label) :
                  ~TooOld(m.iss[k], c.ReopenDuration, now)}
      key == IF pick = 0 \/ fresh = {} THEN 0
             ELSE IF pick \in fresh THEN pick ELSE CHOOSE k \in fresh : TRUE
  IN  IF resp # StatusOK THEN [m EXCEPT !.r = Fail(r, "Search", 0, Nil, resp)]
      ELSE IF pick = 0
           THEN [m EXCEPT !.r = AfterLookup(Logged(r, "Search", 0, Nil, resp), c, f)]
           ELSE [m EXCEPT !.r = AfterLookup(
                                  [Logged(r, "Search", pick, Nil, resp)
                                     EXCEPT !.found = pick,
                                            !.hit = m.iss[IF key = 0 THEN pick ELSE key],
                                            !.key = key,
                                            !.nmatch = Cardinality(Matches(m.iss,
                                                projectsToSearch(r.project, c), r.label))],
                                  c, f)]

\* Receiver.search and the rest of findIssueToReuse; pick is the issue the
\* backend returns first, 0 when it returns none.
DoSearch(m, resp, pick, c, f) ==
  LET r == m.r
  IN  IF resp # StatusOK THEN [m EXCEPT !.r = Fail(r, "Search", 0, Nil, resp)]
      ELSE IF pick = 0
           THEN [m EXCEPT !.r = AfterLookup(Logged(r, "Search", 0, Nil, resp), c, f)]
           ELSE LET hit == m.iss[pick]
                    key == IF TooOld(hit, c.ReopenDuration, now) THEN 0 ELSE pick
                IN  [m EXCEPT !.r = AfterLookup(
                                      [Logged(r, "Search", pick, Nil, resp)
                                         EXCEPT !.found = pick, !.hit = hit, !.key = key,
                                                !.nmatch = Cardinality(Matches(m.iss,
                                                    projectsToSearch(r.project, c), r.label))],
                                      c, f)]

NoFields == [Summary |-> <<>>, Description |-> <<>>, Priority |-> <<>>]

\* updateSummary, updateDescription, updatePriority: one UpdateWithOptions call.
DoUpdate(m, resp, stage, fields, c, f) ==
  LET r == m.r
  IN  IF resp # StatusOK THEN [m EXCEPT !.r = Fail(r, r.pc, r.key, Nil, resp)]
      ELSE [r |-> SyncFrom(Logged(r, r.pc, r.key, Nil, resp), stage + 1, c, f),
            iss |-> FakeUpdatePriority(FakeUpdateWithOptions(m.iss, r.key, fields),
                                       r.key, fields)]

DoAddComment(m, resp, c, f) ==
  LET r == m.r
  IN  IF resp # StatusOK THEN [m EXCEPT !.r = Fail(r, "AddComment", r.key, Nil, resp)]
      ELSE [r |-> SyncFrom(Logged(r, "AddComment", r.key, Nil, resp), 3, c, f),
            iss |-> FakeAddComment(m.iss, r.key, r.desc)]

TransitionIDs(name) == {id \in DOMAIN transitionsByID : transitionsByID[id].Name = name}

\* A variant of DoGetTransitions: a missing transition is passed over in silence.
DoGetTransitions_SilentWhenMissing(m, resp) ==
  LET r == m.r
  IN  IF resp # StatusOK THEN [m EXCEPT !.r = Fail(r, "GetTransitions", r.key, r.target, resp)]
      ELSE LET r2 == Logged(r, "GetTransitions", r.key, r.target, resp)
           IN  IF TransitionIDs(r.target) = {}
               THEN [m EXCEPT !.r = Done(r2, FALSE, Nil)]
               ELSE [m EXCEPT !.r = [r2 EXCEPT !.pc = "DoTransition"]]

\* doTransition, first half: GetTransitions and the search for the state's name.
DoGetTransitions(m, resp) ==
  LET r == m.r
  IN  IF resp # StatusOK THEN [m EXCEPT !.r = Fail(r, "GetTransitions", r.key, r.target, resp)]
      ELSE LET r2 == Logged(r, "GetTransitions", r.key, r.target, resp)
           IN  IF TransitionIDs(r.target) = {}
               THEN [m EXCEPT !.r = [Done(r2, FALSE, "no transition")
                                       EXCEPT !.errArgs = <<r.target, r.key>>]]
               ELSE [m EXCEPT !.r = [r2 EXCEPT !.pc = "DoTransition"]]

\* doTransition, second half: DoTransition with the transition found.
DoDoTransition(m, resp) ==
  LET r == m.r
      id == CHOOSE t \in TransitionIDs(r.target) : TRUE
  IN  IF resp # StatusOK THEN [m EXCEPT !.r = Fail(r, "DoTransition", r.key, r.target, resp)]
      ELSE [r |-> Done(Logged(r, "DoTransition", r.key, r.target, resp), FALSE, Nil),
            iss |-> FakeDoTransition(m.iss, r.key, id)]

\* A variant of DoCreate: the backend keeps one ticket per label.
DoCreate_UniquePerLabel(m, resp, c) ==
  LET r == m.r
  IN  IF \E k \in DOMAIN m.iss : r.label \in Range(m.iss[k].Labels)
      THEN [m EXCEPT !.r = Done(Logged(r, "Create", 0, Nil, resp), FALSE, Nil)]
      ELSE [r |-> Done(Logged(r, "Create", Len(m.iss) + 1, Nil, resp), FALSE, Nil),
            iss |-> FakeCreate(m.iss, NewIssue(r, c))]

DoCreate(m, resp, c) ==
  LET r == m.r
  IN  IF CreateRenderFails(r, c) THEN [m EXCEPT !.r = Done(r, FALSE, "render")]
      ELSE IF resp # StatusOK THEN [m EXCEPT !.r = Fail(r, "Create", 0, Nil, resp)]
      ELSE [r |-> Done(Logged(r, "Create", Len(m.iss) + 1, Nil, resp), FALSE, Nil),
            iss |-> FakeCreate(m.iss, NewIssue(r, c))]

\* The backend call at r.pc, answered with resp.
DoCall(m, resp, pick, c, f) ==
  CASE m.r.pc = "Search" -> DoSearch(m, resp, pick, c, f)
    [] m.r.pc = "UpdateSummary" ->
         DoUpdate(m, resp, 1, [NoFields EXCEPT !.Summary = m.r.summary], c, f)
    [] m.r.pc = "AddComment" -> DoAddComment(m, resp, c, f)
    [] m.r.pc = "UpdateDescription" ->
         DoUpdate(m, resp, 3, [NoFields EXCEPT !.Description = m.r.desc], c, f)
    [] m.r.pc = "UpdatePriority" ->
         DoUpdate(m, resp, 4, [NoFields EXCEPT !.Priority = <<m.r.priority>>], c, f)
    [] m.r.pc = "GetTransitions" -> DoGetTransitions(m, resp)
    [] m.r.pc = "DoTransition" -> DoDoTransition(m, resp)
    [] m.r.pc = "Create" -> DoCreate(m, resp, c)

\* Notify to its return: the n-th backend call is answered with fault.resp
\* when n = fault.at, with success otherwise.
RECURSIVE RunNotify(_, _, _, _, _, _)
RunNotify(m, n, fault, pick, c, f) ==
  IF m.r.pc = "done" THEN m
  ELSE CHOOSE end \in {RunNotify(m2, n + 1, fault, pick, c, f) :
                         m2 \in {DoCall(m, IF n = fault.at THEN fault.resp ELSE StatusOK,
                                        pick, c, f)}} : TRUE

NoFault == [at |-> 0, resp |-> StatusOK]

\* A call the backend fails: any call of the reconcile, with any failure.
Faults(good) ==
  IF nfaults < MaxFaults
  THEN [at : 1..Len(good.r.calls), resp : responses]
  ELSE {}

FirstReturned(data) ==
  LET first == SearchFirst(issues, projectsToSearch(Execute(conf.Project, data).out, conf),
                           toGroupTicketLabel(data.GroupLabels, flags.hashJiraLabel))
  IN  IF first = {} THEN {0} ELSE first

Redelivered(p, data) == rc[p].pc = "done" /\ rc[p].err = Nil /\ rc[p].data = data

\* The /alert handler of cmd/jiralert: the status it answers after Notify.
StatusServiceUnavailable == 503
StatusBadRequest == 400
StatusNotFound == 404
StatusInternalServerError == 500

AlertHandler_NeverAsksRetry(r) ==
  [r EXCEPT !.status = IF r.err # Nil THEN StatusBadRequest ELSE StatusOK]

AlertHandler(r) ==
  [r EXCEPT !.status = IF r.err # Nil
                       THEN IF r.retry THEN StatusServiceUnavailable ELSE StatusBadRequest
                       ELSE StatusOK]

Notify(p) ==
  /\ rc[p].pc \in {"idle", "done", "rejected"}
  /\ ncalls < MaxCalls
  /\ \E data \in Notifications :
       \E pick \in FirstReturned(data) :
         \E m0 \in {[r |-> Begin(data, conf, flags, Redelivered(p, data)), iss |-> issues]} :
           \E good \in {RunNotify(m0, 1, NoFault, pick, conf, flags)} :
             \E fault \in {NoFault} \cup Faults(good) :
               \E m \in {IF fault = NoFault THEN good
                         ELSE RunNotify(m0, 1, fault, pick, conf, flags)} :
                 /\ Len(m.iss) <= MaxIssues
                 /\ rc' = [rc EXCEPT ![p] = AlertHandler(m.r)]
                 /\ issues' = m.iss
                 /\ nfaults' = IF fault = NoFault THEN nfaults ELSE nfaults + 1
  /\ ncalls' = ncalls + 1
  /\ UNCHANGED <<transitionsByID, now, conf, flags, responses, config>>

\* The /alert handler answering before Notify is reached: the body does not
\* decode, the receiver is unknown, or the client cannot be built.
Reject(p) ==
  /\ rc[p].pc \in {"idle", "done", "rejected"}
  /\ ncalls < MaxCalls
  /\ \E st \in {StatusBadRequest, StatusNotFound, StatusInternalServerError} :
       rc' = [rc EXCEPT ![p] = [IdleRec EXCEPT !.pc = "rejected", !.err = "request",
                                               !.status = st]]
  /\ ncalls' = ncalls + 1
  /\ UNCHANGED <<issues, transitionsByID, now, conf, flags, nfaults, responses, config>>

(***************************************************************************)
(* The environment between reconciles: a human resolves an issue; time     *)
(* passes.  A reconcile that has returned leaves nothing behind; after the  *)
(* last reconcile of a run the environment is of no interest.              *)
(***************************************************************************)
Returned == [p \in Procs |-> IdleRec]

ExternalResolve ==
  /\ ncalls < MaxCalls
  /\ \E k \in DOMAIN issues, res \in {ResolutionDone, WontFix} :
       /\ issues[k].Status # "done"
       /\ issues' = [issues EXCEPT ![k].Status = "done", ![k].Resolution = <<res>>,
                                   ![k].Resolutiondate = now]
  /\ rc' = Returned
  /\ UNCHANGED <<transitionsByID, now, conf, flags, ncalls, nfaults, responses, config>>

\* Time matters only against a resolution date.
Tick ==
  /\ ncalls < MaxCalls
  /\ now < MaxTime
  /\ \E k \in DOMAIN issues : issues[k].Resolutiondate # 0
  /\ now' = now + 1
  /\ rc' = Returned
  /\ UNCHANGED <<issues, transitionsByID, conf, flags, ncalls, nfaults, responses, config>>

TransitionSets ==
  {("1234" :> [ID |-> "1234", Name |-> "Done"]),
   ("1234" :> [ID |-> "1234", Name |-> "Done"]) @@ ("tr1" :> [ID |-> "tr1", Name |-> ReopenState])}

Init ==
  /\ issues = <<>>
  /\ transitionsByID \in TransitionSets
  /\ now = 1
  /\ conf \in Configs
  /\ flags \in Flags
  /\ rc = [p \in Procs |-> IdleRec]
  /\ ncalls = 0
  /\ nfaults = 0
  /\ responses = FailureResponses
  /\ config = NoConfig

Next ==
  \/ \E p \in Procs : Notify(p)
  \/ \E p \in Procs : Reject(p)
  \/ ExternalResolve
  \/ Tick

Spec == Init /\ [][Next]_vars

(***************************************************************************)
(* Failures: every class of backend response, transition lists that lack   *)
(* the requested state, and configurations whose templates do not render.  *)
(***************************************************************************)
\* No response; a 2xx response the client cannot decode; other statuses.
AllFailureResponses == {NoResponse, 204, 400, 429, 500, 502, 503}

OtherTransitions == ("9" :> [ID |-> "9", Name |-> "In Progress"])

BaseConf ==
  CHOOSE c \in Configs : c.ReopenDuration = 1 /\ c.AutoResolve # <<>> /\ ~c.UpdateInComment

\* Fields whose rendering fails: in a string, in a slice element, in the key
\* and in the value of a nested map.
FailingFieldSets ==
  {<<[key |-> <<"customfield_1">>, val |-> String(BadTmpl)]>>,
   <<[key |-> <<"customfield_1">>, val |-> Slice(<<Other(7), String(BadTmpl)>>)]>>,
   <<[key |-> <<"customfield_1">>,
      val |-> Map(<<Entry(BadTmpl, TRUE, String(<<"x">>))>>)]>>,
   <<[key |-> <<"customfield_1">>,
      val |-> Map(<<Entry(<<"value">>, TRUE, String(BadTmpl))>>)]>>}

\* Fields that render: the entry under a key that is not a string is dropped.
RenderedFieldSets ==
  {<<[key |-> <<"customfield_1">>,
      val |-> Map(<<Entry(<<"value">>, TRUE, String(DescriptionTmpl)),
                    Entry(<<"7">>, FALSE, String(BadTmpl))>>)]>>}

TemplateFields == {"Project", "Summary", "Priority", "Description", "IssueType"}

FailingConfigs ==
  {[BaseConf EXCEPT ![f] = BadTmpl] : f \in TemplateFields}
    \cup {[BaseConf EXCEPT !.Components = <<<<"backend">>, BadTmpl>>]}
    \cup {[BaseConf EXCEPT !.Fields = fs] : fs \in FailingFieldSets}

ErrConfigs ==
  Configs \cup FailingConfigs \cup {[BaseConf EXCEPT !.Fields = fs] : fs \in RenderedFieldSets}

ErrInit ==
  /\ issues = <<>>
  /\ transitionsByID \in TransitionSets \cup {OtherTransitions}
  /\ now = 1
  /\ conf \in ErrConfigs
  /\ flags = DefaultFlags
  /\ rc = [p \in Procs |-> IdleRec]
  /\ ncalls = 0
  /\ nfaults = 0
  /\ responses = AllFailureResponses
  /\ config = NoConfig

SpecErr == ErrInit /\ [][Next]_vars

(***************************************************************************)
(* Long descriptions.  A Go string is a sequence of bytes: "a" and "b" are *)
(* characters of one byte, and one character of two bytes is the pair      *)
(* "e:1", "e:2" (an accented letter in UTF-8).  len and the slice of lines  *)
(* 94-96 count bytes.                                                       *)
(***************************************************************************)
MaxDescriptionLimit == 3

\* The number of firing alerts before or after a literal text.
DescriptionTemplates ==
  LET texts == {<<"a">>, <<"e:1", "e:2">>, <<"a", "b">>, <<"a", "e:1", "e:2">>,
                <<"e:1", "e:2", "a">>, <<"a", "b", "a", "b">>}
  IN  {DescriptionTmpl \o t : t \in texts} \cup {t \o DescriptionTmpl : t \in texts}

TruncInit ==
  /\ issues = <<>>
  /\ transitionsByID \in TransitionSets
  /\ now = 1
  /\ \E text \in DescriptionTemplates, inComment \in BOOLEAN :
       conf = [BaseConf EXCEPT !.Description = text, !.UpdateInComment = inComment]
  /\ \E limit \in 0..MaxDescriptionLimit :
       flags = [DefaultFlags EXCEPT !.maxDescriptionLength = limit]
  /\ rc = [p \in Procs |-> IdleRec]
  /\ ncalls = 0
  /\ nfaults = 0
  /\ responses = {}
  /\ config = NoConfig

SpecTrunc == TruncInit /\ [][\E p \in Procs : Notify(p)]_vars

(***************************************************************************)
(* Tickets moved between projects: receivers with other_projects, and a    *)
(* human who moves a ticket to a project that is searched or to one that   *)
(* is not.                                                                 *)
(***************************************************************************)
MovedConfigs ==
  {[c EXCEPT !.OtherProjects = others] :
     c \in {c \in Configs : c.AutoResolve = <<>> /\ ~c.UpdateInComment},
     others \in {<<<<"xyz">>>>, <<<<"abc">>, <<"xyz">>>>}}

MovedInit ==
  /\ issues = <<>>
  /\ transitionsByID \in TransitionSets
  /\ now = 1
  /\ conf \in MovedConfigs
  /\ flags = DefaultFlags
  /\ rc = [p \in Procs |-> IdleRec]
  /\ ncalls = 0
  /\ nfaults = 0
  /\ responses = {}
  /\ config = NoConfig

\* A human moves a ticket to another project.
Move ==
  /\ ncalls < MaxCalls
  /\ \E k \in DOMAIN issues, project \in {<<"abc">>, <<"xyz">>, <<"uvw">>} :
       /\ issues[k].Project # project
       /\ issues' = [issues EXCEPT ![k].Project = project]
  /\ rc' = Returned
  /\ UNCHANGED <<transitionsByID, now, conf, flags, ncalls, nfaults, responses, config>>

MovedNext ==
  \/ \E p \in Procs : Notify(p)
  \/ Move
  \/ ExternalResolve
  \/ Tick

SpecMoved == MovedInit /\ [][MovedNext]_vars

(***************************************************************************)
(* Concurrent delivery: the HTTP server runs the /alert handler of each    *)
(* request in its own goroutine, so the backend calls of two reconciles    *)
(* interleave.  One step is one backend call.                              *)
(***************************************************************************)
ConcProcs == {1, 2}

\* The backend after a reconcile of data, run alone from iss.
Alone(data, iss, c, f) ==
  LET r0 == Begin(data, c, f, FALSE)
      first == SearchFirst(iss, projectsToSearch(r0.project, c), r0.label)
      pick == IF first = {} THEN 0 ELSE CHOOSE k \in first : TRUE
  IN  RunNotify([r |-> r0, iss |-> iss], 1, NoFault, pick, c, f)

FiringAB == Notification(<<AlertFiring, AlertFiring>>, GroupAB)
FiringAE == Notification(<<AlertFiring, AlertResolved>>, GroupAE)

\* Backends earlier deliveries leave behind: empty, an open ticket of either
\* group, a ticket resolved by a user.
ConcBackends(c, f) ==
  LET ab == Alone(FiringAB, <<>>, c, f).iss
      ae == Alone(FiringAE, <<>>, c, f).iss
  IN  {<<>>, ab, ae,
       [ab EXCEPT ![1].Status = "done", ![1].Resolution = <<ResolutionDone>>,
                  ![1].Resolutiondate = 1]}

ConcInit ==
  /\ transitionsByID \in TransitionSets
  /\ now = 1
  /\ conf \in Configs
  /\ flags \in {DefaultFlags, [DefaultFlags EXCEPT !.hashJiraLabel = TRUE]}
  /\ issues \in ConcBackends(conf, flags)
  /\ rc = [p \in ConcProcs |-> IdleRec]
  /\ ncalls = 0
  /\ nfaults = 0
  /\ responses = {}
  /\ config = NoConfig

\* A request arrives: Notify up to its first backend call.
ConcBegin(p) ==
  /\ rc[p].pc = "idle"
  /\ \E data \in Notifications :
       rc' = [rc EXCEPT ![p] = [Begin(data, conf, flags, FALSE) EXCEPT !.start = issues]]
  /\ UNCHANGED <<issues, transitionsByID, now, conf, flags, ncalls, nfaults, responses, config>>

ConcPicks(r) ==
  LET first == SearchFirst(issues, projectsToSearch(r.project, conf), r.label)
  IN  IF r.pc = "Search" /\ first # {} THEN first ELSE {0}

\* The backend answers the call a reconcile is waiting on.
ConcStep(p) ==
  /\ rc[p].pc \notin {"idle", "done", "rejected"}
  /\ \E pick \in ConcPicks(rc[p]) :
       \E m \in {DoCall([r |-> rc[p], iss |-> issues], StatusOK, pick, conf, flags)} :
         /\ Len(m.iss) <= MaxIssues
         /\ rc' = [rc EXCEPT ![p] = IF m.r.pc = "done" THEN AlertHandler(m.r) ELSE m.r]
         /\ issues' = m.iss
  /\ UNCHANGED <<transitionsByID, now, conf, flags, ncalls, nfaults, responses, config>>

ConcNext ==
  \/ \E p \in ConcProcs : ConcBegin(p)
  \/ \E p \in ConcProcs : ConcStep(p)

SpecConc == ConcInit /\ [][ConcNext]_vars

(***************************************************************************)
(* toGroupTicketLabel on its own: group labels are put into the KV one     *)
(* pair at a time, in any order, and the label is computed after each.     *)
(***************************************************************************)
MaxLabels == 3

LabelKeys == {<<"a">>, <<"c">>, <<"A">>, <<"a", "b">>}
LabelValues == {<<"b">>, <<"d">>, <<"b", " ", "d">>, <<"b", "d">>}

LabelInit ==
  /\ issues = <<>>
  /\ transitionsByID \in TransitionSets
  /\ now = 1
  /\ conf = BaseConf
  /\ flags \in {DefaultFlags, [DefaultFlags EXCEPT !.hashJiraLabel = TRUE]}
  /\ rc = [p \in ConcProcs |-> IdleRec]
  /\ ncalls = 0
  /\ nfaults = 0
  /\ responses = {}
  /\ config = NoConfig

\* The label of the group labels as they are.
LabelCompute(p) ==
  /\ rc[p].pc = "idle"
  /\ rc' = [rc EXCEPT ![p].pc = "label",
                      ![p].label = toGroupTicketLabel(rc[p].data.GroupLabels,
                                                      flags.hashJiraLabel)]
  /\ UNCHANGED <<issues, transitionsByID, now, conf, flags, ncalls, nfaults, responses, config>>

\* One more pair in the KV, and the label of the result.
LabelInsert(p) ==
  /\ rc[p].pc \in {"idle", "label"}
  /\ Cardinality(DOMAIN rc[p].data.GroupLabels) < MaxLabels
  /\ \E k \in LabelKeys \ DOMAIN rc[p].data.GroupLabels, v \in LabelValues :
       \E kv \in {(k :> v) @@ rc[p].data.GroupLabels} :
         rc' = [rc EXCEPT ![p].pc = "label",
                          ![p].data.GroupLabels = kv,
                          ![p].label = toGroupTicketLabel(kv, flags.hashJiraLabel)]
  /\ UNCHANGED <<issues, transitionsByID, now, conf, flags, ncalls, nfaults, responses, config>>

LabelNext ==
  \/ \E p \in ConcProcs : LabelCompute(p)
  \/ \E p \in ConcProcs : LabelInsert(p)

SpecLabel == LabelInit /\ [][LabelNext]_vars

(***************************************************************************)
(* Loading the configuration file: Config.UnmarshalYAML.  A string is a    *)
(* TLA+ string, "" when the key is absent; a pointer is a sequence of      *)
(* length 0 or 1.                                                          *)
(***************************************************************************)
EmptyReceiver ==
  [Name |-> "", APIURL |-> "", User |-> "", Password |-> "", PersonalAccessToken |-> "",
   Project |-> "", IssueType |-> "", Summary |-> "", ReopenState |-> "",
   ReopenDuration |-> <<>>, Priority |-> "", Description |-> "", WontFixResolution |-> "",
   Fields |-> <<>>, StaticLabels |-> <<>>, UpdateInComment |-> FALSE, AutoResolve |-> <<>>,
   XXX |-> {}]

LoadError(kind, field, name) == [kind |-> kind, field |-> field, receiver |-> name]

NoError == LoadError("", "", "")

\* url.Parse rejects it.
InvalidURL == "%zz"

\* Lines 224-255: the API access fields of one receiver.
LoadAccess(rcv, d) ==
  LET url == IF rcv.APIURL = "" THEN d.APIURL ELSE rcv.APIURL
      user == IF rcv.User = "" /\ d.User # "" THEN d.User ELSE rcv.User
      password == IF rcv.Password = "" /\ d.Password # "" THEN d.Password ELSE rcv.Password
      withURL == [rcv EXCEPT !.APIURL = url]
      basic == [withURL EXCEPT !.User = user, !.Password = password]
  IN  IF url = "" THEN [err |-> LoadError("missing", "api_url", rcv.Name), rcv |-> rcv]
      ELSE IF url = InvalidURL
      THEN [err |-> LoadError("invalid", "api_url", rcv.Name), rcv |-> withURL]
      ELSE IF (rcv.User # "" \/ rcv.Password # "") /\ rcv.PersonalAccessToken # ""
      THEN [err |-> LoadError("bad auth config", "", rcv.Name), rcv |-> withURL]
      ELSE IF (rcv.User = "" \/ rcv.Password = "") /\ rcv.PersonalAccessToken = ""
      THEN IF user # "" /\ password # "" THEN [err |-> NoError, rcv |-> basic]
           ELSE IF d.PersonalAccessToken # ""
           THEN [err |-> NoError,
                 rcv |-> [basic EXCEPT !.PersonalAccessToken = d.PersonalAccessToken]]
           ELSE [err |-> LoadError("missing authentication", "", rcv.Name), rcv |-> basic]
      ELSE [err |-> NoError, rcv |-> withURL]

RequiredFields == <<"Project", "IssueType", "Summary", "ReopenState", "ReopenDuration">>

YamlKey ==
  [Project |-> "project", IssueType |-> "issue_type", Summary |-> "summary",
   ReopenState |-> "reopen_state", ReopenDuration |-> "reopen_duration"]

\* A string key is empty when "", the reopen_duration pointer when nil.
IsEmpty(f, v) == IF f = "ReopenDuration" THEN v = <<>> ELSE v = ""

\* Lines 257-287: the required issue fields, in their order, from field i on.
RECURSIVE LoadRequired(_, _, _)
LoadRequired(rcv, d, i) ==
  IF i > Len(RequiredFields) THEN [err |-> NoError, rcv |-> rcv]
  ELSE LET f == RequiredFields[i]
       IN  IF ~IsEmpty(f, rcv[f]) THEN LoadRequired(rcv, d, i + 1)
           ELSE IF IsEmpty(f, d[f])
           THEN [err |-> LoadError("missing", YamlKey[f], rcv.Name), rcv |-> rcv]
           ELSE LoadRequired([rcv EXCEPT ![f] = d[f]], d, i + 1)

\* A variant of MergeStaticLabels: a label the receiver has is not added again.
MergeStaticLabels_Deduplicated(own, defaults) ==
  own \o SelectSeq(defaults, LAMBDA l : l \notin Range(own))

\* Lines 314-316: append(rc.StaticLabels, c.Defaults.StaticLabels...).
MergeStaticLabels(own, defaults) ==
  IF Len(defaults) > 0 THEN own \o defaults ELSE own

\* Lines 289-319: the optional issue fields.
LoadOptional(rcv, d) ==
  LET inherit(f) == IF rcv[f] = "" /\ d[f] # "" THEN d[f] ELSE rcv[f]
  IN  IF rcv.AutoResolve # <<>> /\ rcv.AutoResolve[1].State = ""
      THEN [err |-> LoadError("bad config", "auto_resolve", rcv.Name),
            rcv |-> [rcv EXCEPT !.Priority = inherit("Priority"),
                              !.Description = inherit("Description"),
                              !.WontFixResolution = inherit("WontFixResolution")]]
      ELSE [err |-> NoError,
            rcv |-> [rcv EXCEPT !.Priority = inherit("Priority"),
                              !.Description = inherit("Description"),
                              !.WontFixResolution = inherit("WontFixResolution"),
                              !.AutoResolve = IF rcv.AutoResolve = <<>> THEN d.AutoResolve
                                              ELSE rcv.AutoResolve,
                              !.Fields = rcv.Fields @@ d.Fields,
                              !.StaticLabels = MergeStaticLabels(rcv.StaticLabels,
                                                                 d.StaticLabels),
                              !.UpdateInComment = IF ~rcv.UpdateInComment
                                                  THEN d.UpdateInComment
                                                  ELSE rcv.UpdateInComment]]

\* Lines 219-320: the body of the loop, for one receiver.
LoadReceiver(rcv, d) ==
  IF rcv.Name = "" THEN [err |-> LoadError("missing name", "", ""), rcv |-> rcv]
  ELSE LET a == LoadAccess(rcv, d)
       IN  IF a.err # NoError THEN a
           ELSE LET r == LoadRequired(a.rcv, d, 1)
                IN  IF r.err # NoError THEN r ELSE LoadOptional(r.rcv, d)

\* The loop over the receivers, stopped by the first error.
RECURSIVE LoadReceivers(_, _, _)
LoadReceivers(rcs, d, i) ==
  IF i > Len(rcs) THEN [err |-> NoError, Receivers |-> rcs]
  ELSE LET one == LoadReceiver(rcs[i], d)
           next == [rcs EXCEPT ![i] = one.rcv]
       IN  IF one.err # NoError THEN [err |-> one.err, Receivers |-> next]
           ELSE LoadReceivers(next, d, i + 1)

\* Config.UnmarshalYAML on a parsed file; c.Defaults is nil when the file has
\* no defaults section, and reading a field of it panics.
UnmarshalYAML(c) ==
  LET fail(e) == [c EXCEPT !.outcome = "error", !.err = e]
  IN  IF \E i \in DOMAIN c.Receivers : c.Receivers[i].XXX # {}
      THEN fail(LoadError("unknown fields", "", "receiver"))
      ELSE IF c.Defaults = <<>> THEN [c EXCEPT !.outcome = "panic"]
      ELSE LET d == c.Defaults[1]
           IN  IF d.XXX # {} THEN fail(LoadError("unknown fields", "", "receiver"))
               ELSE IF (d.User # "" \/ d.Password # "") /\ d.PersonalAccessToken # ""
               THEN fail(LoadError("bad auth config", "", "defaults"))
               ELSE IF d.AutoResolve # <<>> /\ d.AutoResolve[1].State = ""
               THEN fail(LoadError("bad config", "auto_resolve", "defaults"))
               ELSE LET l == LoadReceivers(c.Receivers, d, 1)
                    IN  IF l.err # NoError
                        THEN [fail(l.err) EXCEPT !.Receivers = l.Receivers]
                        ELSE IF Len(c.Receivers) = 0
                        THEN fail(LoadError("no receivers defined", "", ""))
                        ELSE IF c.Template = ""
                        THEN fail(LoadError("missing template file", "", ""))
                        ELSE IF c.XXX # {}
                        THEN fail(LoadError("unknown fields", "", "config"))
                        ELSE [c EXCEPT !.outcome = "ok", !.Receivers = l.Receivers]

\* A receiver and a defaults section with every key set; they differ in every
\* value.  The receiver authenticates with user and password.
FullReceiver ==
  [EmptyReceiver EXCEPT !.Name = "r1", !.APIURL = "http://r", !.User = "r-user",
                        !.Password = "r-pass", !.Project = "R", !.IssueType = "r-type",
                        !.Summary = "r-summary", !.ReopenState = "r-reopen",
                        !.ReopenDuration = <<1>>, !.StaticLabels = <<"a">>]

FullDefaults ==
  [EmptyReceiver EXCEPT !.APIURL = "http://d", !.PersonalAccessToken = "d-token",
                        !.Project = "D", !.IssueType = "d-type", !.Summary = "d-summary",
                        !.ReopenState = "d-reopen", !.ReopenDuration = <<2>>,
                        !.Priority = "d-priority", !.StaticLabels = <<"b">>]

\* The section with the keys of unset removed.
Without(section, unset) ==
  [f \in DOMAIN section |-> IF f \in unset THEN EmptyReceiver[f] ELSE section[f]]

AuthFields == {"User", "Password", "PersonalAccessToken"}

\* A section with exactly the authentication keys of set.
WithAuth(section, set) ==
  [Without(section, AuthFields) EXCEPT
     !.User = IF "User" \in set THEN "user" ELSE "",
     !.Password = IF "Password" \in set THEN "pass" ELSE "",
     !.PersonalAccessToken = IF "PersonalAccessToken" \in set THEN "token" ELSE ""]

LabelLists == {<<>>, <<"a">>, <<"b">>, <<"a", "a">>, <<"a", "b">>, <<"b", "a">>}

File(defaults, receivers) ==
  [Defaults |-> defaults, Receivers |-> receivers, Template |-> "jiralert.tmpl", XXX |-> {},
   outcome |-> "parsed", err |-> NoError,
   input |-> [Defaults |-> defaults, Receivers |-> receivers]]

\* The files read: every way of leaving required keys out of a receiver and
\* out of the defaults, every way of setting the authentication keys, every
\* pair of label lists, a second receiver, and the files that fail elsewhere.
ConfigFiles ==
  LET Required == {RequiredFields[i] : i \in DOMAIN RequiredFields}
  IN  {File(<<Without(FullDefaults, ud)>>, <<Without(FullReceiver, ur)>>) :
         ud \in SUBSET Required, ur \in SUBSET Required}
        \cup {File(<<WithAuth(Without(FullDefaults, ud), ad)>>, <<WithAuth(FullReceiver, ar)>>) :
                ad \in SUBSET AuthFields, ar \in SUBSET AuthFields, ud \in {{}, {"APIURL"}}}
        \cup {File(<<[FullDefaults EXCEPT !.StaticLabels = ld]>>,
                   <<[FullReceiver EXCEPT !.StaticLabels = lr]>>) :
                ld \in LabelLists, lr \in LabelLists}
        \cup {File(<<Without(FullDefaults, ud)>>,
                   <<FullReceiver, [Without(FullReceiver, ur) EXCEPT !.Name = "r2"]>>) :
                ud \in {{}, {"Project"}, {"StaticLabels"}}, ur \in SUBSET Required}
        \cup {File(<<>>, <<Without(FullReceiver, ur)>>) : ur \in {{}, {"Project"}}}
        \cup {File(<<FullDefaults>>, <<>>),
              File(<<FullDefaults>>, <<[FullReceiver EXCEPT !.Name = ""]>>),
              File(<<FullDefaults>>, <<[FullReceiver EXCEPT !.APIURL = InvalidURL]>>),
              File(<<FullDefaults>>, <<[FullReceiver EXCEPT !.XXX = {"projekt"}]>>),
              File(<<FullDefaults>>,
                   <<[FullReceiver EXCEPT !.AutoResolve = <<[State |-> ""]>>]>>),
              File(<<[FullDefaults EXCEPT !.AutoResolve = <<[State |-> ""]>>]>>,
                   <<FullReceiver>>),
              File(<<[FullDefaults EXCEPT !.AutoResolve = <<[State |-> "Done"]>>,
                                          !.UpdateInComment = TRUE,
                                          !.Fields = ("k" :> "d") @@ ("l" :> "d")]>>,
                   <<[FullReceiver EXCEPT !.Fields = ("k" :> "r")]>>),
              [File(<<FullDefaults>>, <<FullReceiver>>) EXCEPT !.Template = ""],
              [File(<<FullDefaults>>, <<FullReceiver>>) EXCEPT !.XXX = {"recievers"}]}

ConfigInit ==
  /\ issues = <<>>
  /\ transitionsByID \in TransitionSets
  /\ now = 1
  /\ conf = BaseConf
  /\ flags = DefaultFlags
  /\ rc = [p \in Procs |-> IdleRec]
  /\ ncalls = 0
  /\ nfaults = 0
  /\ responses = {}
  /\ config \in ConfigFiles

\* config.Load: yaml.Unmarshal runs Config.UnmarshalYAML on the parsed file.
Load ==
  /\ config.outcome = "parsed"
  /\ config' = UnmarshalYAML(config)
  /\ UNCHANGED <<issues, transitionsByID, now, conf, flags, rc, ncalls, nfaults, responses>>

SpecConfig == ConfigInit /\ [][Load]_vars

(***************************************************************************)
(* ParseDuration.  A Go int64 is four limbs of 16 bits, least significant  *)
(* first; arithmetic on it wraps, as Go's does, by dropping the carry out   *)
(* of the last limb.  A number of eight limbs holds every exact value here. *)
(***************************************************************************)
MaxDurationLen == 3

\* x * k + a on as many limbs as x has; the carry out of the last is dropped.
RECURSIVE MulAdd(_, _, _)
MulAdd(x, k, a) ==
  IF x = <<>> THEN <<>>
  ELSE LET v == Head(x) * k + a
       IN  <<v % 65536>> \o MulAdd(Tail(x), k, v \div 65536)

RECURSIVE MulAll(_, _)
MulAll(x, ks) == IF ks = <<>> THEN x ELSE MulAll(MulAdd(x, Head(ks), 0), Tail(ks))

DigitValue ==
  ("0" :> 0) @@ ("1" :> 1) @@ ("2" :> 2) @@ ("3" :> 3) @@ ("4" :> 4) @@ ("5" :> 5)
    @@ ("6" :> 6) @@ ("7" :> 7) @@ ("8" :> 8) @@ ("9" :> 9)

\* The value of a run of decimal digits, exactly, on eight limbs.
RECURSIVE Decimal(_, _)
Decimal(digits, acc) ==
  IF digits = <<>> THEN acc
  ELSE Decimal(Tail(digits), MulAdd(acc, 10, DigitValue[Head(digits)]))

\* strconv.Atoi on a run of digits: the value, or the greatest int64 when the
\* value does not fit (the range error is dropped at line 366).
Atoi(digits) ==
  LET exact == Decimal(digits, <<0, 0, 0, 0, 0, 0, 0, 0>>)
  IN  IF (\E i \in 5..8 : exact[i] # 0) \/ exact[4] >= 32768
      THEN <<65535, 65535, 65535, 32767>>
      ELSE SubSeq(exact, 1, 4)

\* The factors of a unit over the millisecond (lines 369-386); multiplying by
\* them one after the other wraps to the same int64 as multiplying by their
\* product.
UnitFactors(unit) ==
  CASE unit = <<"y">> -> <<1000, 60, 60, 24, 365>>
    [] unit = <<"w">> -> <<1000, 60, 60, 24, 7>>
    [] unit = <<"d">> -> <<1000, 60, 60, 24>>
    [] unit = <<"h">> -> <<1000, 60, 60>>
    [] unit = <<"m">> -> <<1000, 60>>
    [] unit = <<"s">> -> <<1000>>
    [] unit = <<"ms">> -> <<>>

DurationUnits == {<<"y">>, <<"w">>, <<"d">>, <<"h">>, <<"m">>, <<"s">>, <<"m", "s">>}

\* durationRE, ^([0-9]+)(y|w|d|h|m|s|ms)$: the digits and the unit of str, or
\* no match.
FindStringSubmatch(str) ==
  LET nd == CHOOSE n \in 0..Len(str) :
              /\ \A i \in 1..n : str[i] \in DOMAIN DigitValue
              /\ n < Len(str) => str[n + 1] \notin DOMAIN DigitValue
      unit == SubSeq(str, nd + 1, Len(str))
  IN  IF nd > 0 /\ unit \in DurationUnits
      THEN <<str, SubSeq(str, 1, nd), IF unit = <<"m", "s">> THEN <<"ms">> ELSE unit>>
      ELSE <<>>

\* ParseDuration: time.Duration counts nanoseconds, a millisecond is 10^6.
ParseDuration(durationStr) ==
  LET matches == FindStringSubmatch(durationStr)
  IN  IF Len(matches) # 3 THEN [err |-> TRUE, dur |-> <<0, 0, 0, 0>>]
      ELSE [err |-> FALSE,
            dur |-> MulAll(MulAll(Atoi(matches[2]), <<1000, 1000>>), UnitFactors(matches[3]))]

\* Every short string over digits, unit letters and other characters, and
\* long runs of digits around the greatest duration of each unit.
DurationStrings ==
  LET chars == {"0", "1", "9", "m", "s", "y", "-"}
      long == {<<"2", "9", "2", "y">>, <<"2", "9", "3", "y">>,
               <<"1", "5", "2", "5", "0", "w">>, <<"1", "5", "2", "5", "1", "w">>,
               <<"1", "0", "6", "7", "5", "1", "d">>, <<"1", "0", "6", "7", "5", "2", "d">>,
               <<"2", "5", "6", "2", "0", "4", "7", "h">>,
               <<"2", "5", "6", "2", "0", "4", "8", "h">>,
               <<"9", "2", "2", "3", "3", "7", "2", "0", "3", "6", "8", "5", "4", "m", "s">>,
               <<"9", "2", "2", "3", "3", "7", "2", "0", "3", "6", "8", "5", "5", "m", "s">>,
               <<"9", "9", "9", "9", "9", "9", "9", "9", "9", "9", "9", "9", "9", "9", "9",
                 "9", "9", "9", "9", "9", "s">>,
               <<"1", "0", "h", "3", "0", "m">>, <<"1", ".", "5", "h">>, <<" ", "1", "s">>,
               <<"1", "s", " ">>, <<"1", "H">>, <<"0", "0", "7", "d">>}
  IN  UNION {[1..n -> chars] : n \in 0..MaxDurationLen} \cup long

DurationInit ==
  /\ issues = <<>>
  /\ transitionsByID \in TransitionSets
  /\ now = 1
  /\ conf = BaseConf
  /\ flags = DefaultFlags
  /\ rc = [p \in Procs |-> IdleRec]
  /\ ncalls = 0
  /\ nfaults = 0
  /\ responses = {}
  /\ \E str \in DurationStrings : config = [outcome |-> "string", reopen_duration |-> str]

\* Duration.UnmarshalYAML: the reopen_duration of the file goes to ParseDuration.
UnmarshalDuration ==
  /\ config.outcome = "string"
  /\ \E parsed \in {ParseDuration(config.reopen_duration)} :
       config' = [outcome |-> IF parsed.err THEN "invalid" ELSE "duration",
                  reopen_duration |-> config.reopen_duration,
                  ReopenDuration |-> parsed.dur]
  /\ UNCHANGED <<issues, transitionsByID, now, conf, flags, rc, ncalls, nfaults, responses>>

SpecDuration == DurationInit /\ [][UnmarshalDuration]_vars

(***************************************************************************)
(* A receiver without a priority, facing tickets that carry one: tickets   *)
(* created while a priority was configured.                                *)
(***************************************************************************)
PriorityInit ==
  /\ transitionsByID \in TransitionSets
  /\ now = 1
  /\ conf \in {[c EXCEPT !.Priority = <<>>] : c \in Configs}
  /\ flags \in {DefaultFlags, [DefaultFlags EXCEPT !.updatePriority = FALSE]}
  /\ issues \in ConcBackends(BaseConf, DefaultFlags)
  /\ rc = [p \in Procs |-> IdleRec]
  /\ ncalls = 0
  /\ nfaults = 0
  /\ responses = {}
  /\ config = NoConfig

SpecPriority == PriorityInit /\ [][Next]_vars

(***************************************************************************)
(* The static labels as a Go slice.  The receiver configuration is one     *)
(* object shared by all requests (ReceiverByName returns the pointer), and *)
(* its StaticLabels is a slice: a length and an array that may be longer.  *)
(* The append of the configuration load leaves such room: two own labels   *)
(* and one of the defaults give length 3 in an array of 4.  In Notify,     *)
(* append(staticLabels, issueGroupLabel) writes into that room, and the    *)
(* labels of the issue being built are a view of the shared array until    *)
(* the issue is serialised by Create.  config.array is the array,          *)
(* conf.StaticLabels its first elements, config.labels[p] the labels of    *)
(* the issue that request p has built and not yet sent.                    *)
(***************************************************************************)
StaticArrays ==
  {[len |-> 2, array |-> <<<<"s">>, <<"t">>>>],
   [len |-> 3, array |-> <<<<"s">>, <<"t">>, <<"u">>, <<>>>>]}

AliasInit ==
  /\ issues = <<>>
  /\ transitionsByID \in TransitionSets
  /\ now = 1
  /\ \E a \in StaticArrays, add \in BOOLEAN :
       /\ conf = [BaseConf EXCEPT !.StaticLabels = SubSeq(a.array, 1, a.len),
                                  !.AddGroupLabels = add]
       /\ config = [outcome |-> "loaded", array |-> a.array,
                    labels |-> [p \in ConcProcs |-> <<>>]]
  /\ flags = DefaultFlags
  /\ rc = [p \in ConcProcs |-> IdleRec]
  /\ ncalls = 0
  /\ nfaults = 0
  /\ responses = {}

\* Every backend call but Create.
AliasStep(p) == rc[p].pc # "Create" /\ ConcStep(p)

\* Lines 200-237: the labels of the issue to create.  With room in the array
\* the group label is written into it and the issue's labels are the array's
\* first elements; a further append, or an append without room, copies.
AliasBuild(p) ==
  /\ rc[p].pc = "Create"
  /\ config.labels[p] = <<>>
  /\ LET n == Len(conf.StaticLabels)
         room == n < Len(config.array)
         array == IF room THEN [config.array EXCEPT ![n + 1] = rc[p].label]
                  ELSE config.array
         built == IF room /\ ~conf.AddGroupLabels
                  THEN [shared |-> TRUE, own |-> <<>>]
                  ELSE [shared |-> FALSE, own |-> NewIssueLabels(rc[p], conf)]
     IN  config' = [config EXCEPT !.array = array, !.labels[p] = <<built>>]
  /\ UNCHANGED <<issues, transitionsByID, now, conf, flags, rc, ncalls, nfaults, responses>>

\* r.create: the issue is serialised and sent.  Labels that are a view of
\* the shared array are read now, without synchronisation with the writes
\* of other requests: the slot of the group label holds what this request
\* wrote or what another wrote after it.
AliasSend(p) ==
  /\ rc[p].pc = "Create"
  /\ config.labels[p] # <<>>
  /\ \E m \in {DoCall([r |-> rc[p], iss |-> issues], StatusOK, 0, conf, flags)} :
       \E slot \in {rc[p].label, config.array[Len(config.array)]} :
         \E labels \in {IF config.labels[p][1].shared
                         THEN conf.StaticLabels \o <<slot>>
                         ELSE config.labels[p][1].own} :
           /\ Len(m.iss) <= MaxIssues
           /\ rc' = [rc EXCEPT ![p] = AlertHandler(m.r)]
           /\ issues' = IF Len(m.iss) > Len(issues)
                        THEN [m.iss EXCEPT ![Len(m.iss)].Labels = labels]
                        ELSE m.iss
  /\ config' = [config EXCEPT !.labels[p] = <<>>]
  /\ UNCHANGED <<transitionsByID, now, conf, flags, ncalls, nfaults, responses>>

AliasNext ==
  \/ \E p \in ConcProcs : ConcBegin(p)
  \/ \E p \in ConcProcs : AliasStep(p)
  \/ \E p \in ConcProcs : AliasBuild(p)
  \/ \E p \in ConcProcs : AliasSend(p)

SpecAlias == AliasInit /\ [][AliasNext]_vars

(***************************************************************************)
(* The reconcile that has just returned, and what it did.                  *)
(***************************************************************************)
R == rc[1]

Returned1 == R.pc = "done"

Succeeded == Returned1 /\ R.err = Nil

\* The lookup was answered: Search returned without error.
LookedUp == Returned1 /\ Len(R.calls) > 0 /\ R.calls[1].ok

Issued(ops) == SelectSeq(R.calls, LAMBDA c : c.op \in ops)

Mutations == Issued(MutatingOps)

GroupLabelOf(data) == toGroupTicketLabel(data.GroupLabels, flags.hashJiraLabel)

Carrying(label) == {k \in DOMAIN issues : label \in Range(issues[k].Labels)}

\* The resolution of the ticket the lookup returned lies within the reopen window.
HitWithinWindow == R.hit.Resolutiondate # 0 /\ R.hit.Resolutiondate + conf.ReopenDuration >= now

\* The ticket the lookup returned was resolved before now minus reopenDuration.
HitStale ==
  R.hit.Resolutiondate # 0 /\ conf.ReopenDuration # 0
    /\ R.hit.Resolutiondate < now - conf.ReopenDuration

HitExempt == R.hit.Resolution # <<>> /\ R.hit.Resolution[1] = conf.WontFixResolution

OnlyCreated ==
  /\ Len(Mutations) = 1
  /\ Mutations[1].op = "Create"
  /\ Mutations[1].key \in DOMAIN issues
  /\ GroupLabelOf(R.data) \in Range(issues[Mutations[1].key].Labels)

(***************************************************************************)
(* C1. A reconcile that succeeds with at least one firing alert, against a *)
(* backend in which the lookup found no ticket with the group's label,     *)
(* issues exactly one mutation, a Create; afterwards exactly one ticket    *)
(* carries the group label computed for the notification, and it has the   *)
(* summary rendered from the notification.                                 *)
(***************************************************************************)
C1_CreatesOneTicket ==
  (Succeeded /\ NumFiring(R) >= 1 /\ R.found = 0)
    => /\ OnlyCreated
       /\ Carrying(GroupLabelOf(R.data)) = {Mutations[1].key}
       /\ issues[Mutations[1].key].Summary = Execute(conf.Summary, R.data).out

C1_Witness ==
  /\ Succeeded /\ NumFiring(R) >= 1 /\ R.found = 0
  /\ Len(issues) = 2
  /\ OnlyCreated

(***************************************************************************)
(* C2. When the lookup returns a ticket whose status category is not       *)
(* "done" and the notification carries a firing alert, a successful        *)
(* reconcile creates no ticket and applies no transition: it issues only   *)
(* updates of fields whose rendered value differs from the ticket's, and   *)
(* at most one comment, in comment mode.                                   *)
(***************************************************************************)
OnlyFieldSync ==
  /\ Issued({"Create", "DoTransition", "GetTransitions"}) = <<>>
  /\ Issued({"UpdateSummary"}) # <<>> => R.hit.Summary # Execute(conf.Summary, R.data).out
  /\ Issued({"UpdateDescription"}) # <<>>
       => R.hit.Description # Execute(conf.Description, R.data).out
  /\ Issued({"UpdatePriority"}) # <<>>
       => R.hit.Priority # <<Execute(conf.Priority, R.data).out>>
  /\ Len(Issued({"AddComment"})) <= (IF conf.UpdateInComment THEN 1 ELSE 0)
  /\ \A i \in DOMAIN Mutations : Mutations[i].key = R.found

C2_OpenTicketOnlySynced ==
  (Succeeded /\ NumFiring(R) >= 1 /\ R.found # 0 /\ R.hit.Status # "done") => OnlyFieldSync

(***************************************************************************)
(* C3. As claimed: when the lookup returns a "done" ticket resolved within *)
(* reopenDuration of now under a resolution other than wontFixResolution,  *)
(* a successful reconcile with a firing alert transitions that ticket to   *)
(* reopenState and creates no ticket.                                      *)
(***************************************************************************)
ReopenedHit ==
  /\ Issued({"Create"}) = <<>>
  /\ Len(Issued({"DoTransition"})) = 1
  /\ Issued({"DoTransition"})[1] = Call("DoTransition", R.found, conf.ReopenState, StatusOK)
  /\ issues[R.found].Status = conf.ReopenState

RecentlyResolvedHit ==
  /\ Succeeded /\ NumFiring(R) >= 1 /\ R.found # 0
  /\ R.hit.Status = "done" /\ HitWithinWindow /\ ~HitExempt

C3_AsClaimed == RecentlyResolvedHit => ReopenedHit

(***************************************************************************)
(* C3, amended. The same, when reopening is enabled (reopenTickets); with  *)
(* reopening disabled no transition is applied.                            *)
(***************************************************************************)
C3_ReopensWhenEnabled ==
  RecentlyResolvedHit =>
    IF flags.reopenTickets THEN ReopenedHit
    ELSE Issued({"Create", "DoTransition", "GetTransitions"}) = <<>>

C3_Witness == RecentlyResolvedHit /\ flags.reopenTickets /\ ReopenedHit /\ conf.ReopenDuration # 0

(***************************************************************************)
(* C4. When the ticket the lookup returns was resolved before now minus a  *)
(* non-zero reopenDuration, a successful reconcile with a firing alert     *)
(* creates a second ticket with the same group label, and issues no call   *)
(* on the stale ticket, which stays as the lookup returned it.             *)
(***************************************************************************)
C4_StaleTicketLeftAlone ==
  (Succeeded /\ NumFiring(R) >= 1 /\ R.found # 0 /\ HitStale)
    => /\ OnlyCreated
       /\ Mutations[1].key # R.found
       /\ GroupLabelOf(R.data) \in Range(issues[R.found].Labels)
       /\ issues[R.found] = R.hit

C4_Witness ==
  /\ Succeeded /\ NumFiring(R) >= 1 /\ R.found # 0 /\ HitStale
  /\ R.hit.Status = "done"
  /\ OnlyCreated

(***************************************************************************)
(* C5. As claimed: a resolved ticket whose resolution is wontFixResolution *)
(* is never transitioned to reopenState, whatever its resolution age, and  *)
(* no ticket is created while it is the only match the lookup returns.     *)
(***************************************************************************)
ExemptHit == LookedUp /\ R.found # 0 /\ R.hit.Status = "done" /\ HitExempt

NotReopened ==
  \A i \in DOMAIN R.calls :
    R.calls[i].op \in {"GetTransitions", "DoTransition"} => R.calls[i].arg # conf.ReopenState

C5_AsClaimed ==
  ExemptHit => /\ NotReopened
               /\ R.nmatch = 1 => Issued({"Create"}) = <<>>

(***************************************************************************)
(* C5, amended. Such a ticket is never reopened, whatever its resolution   *)
(* age, and no ticket is created while it is the only match and is not     *)
(* too old to reopen (resolved within reopenDuration, or reopenDuration    *)
(* zero).                                                                  *)
(***************************************************************************)
C5_ExemptNeverReopened ==
  ExemptHit => /\ NotReopened
               /\ issues[R.found].Status # conf.ReopenState
               /\ (R.nmatch = 1 /\ ~HitStale) => Issued({"Create"}) = <<>>

C5_Witness ==
  /\ ExemptHit /\ Succeeded /\ NumFiring(R) >= 1 /\ flags.reopenTickets
  /\ conf.ReopenDuration # 0 /\ ~HitStale /\ R.nmatch = 1
  /\ TransitionIDs(conf.ReopenState) # {}

(***************************************************************************)
(* C6. As claimed: a matched ticket that is "done" under wontFixResolution *)
(* is treated like a stale one: a successful reconcile with a firing alert *)
(* creates a new ticket with the same group label.                         *)
(***************************************************************************)
C6_AsClaimed == (ExemptHit /\ Succeeded /\ NumFiring(R) >= 1) => OnlyCreated

(***************************************************************************)
(* C6, amended. Such a ticket starts a fresh lineage exactly when it is    *)
(* also too old to reopen; otherwise the reconcile ends after the field    *)
(* synchronisation, creating and transitioning nothing.                    *)
(***************************************************************************)
C6_ExemptCreatesOnlyWhenStale ==
  (ExemptHit /\ Succeeded /\ NumFiring(R) >= 1)
    => IF HitStale THEN OnlyCreated
       ELSE /\ Issued({"Create", "DoTransition", "GetTransitions"}) = <<>>
            /\ \A i \in DOMAIN Mutations : Mutations[i].key = R.found

C6_Witness ==
  /\ ExemptHit /\ Succeeded /\ NumFiring(R) >= 1 /\ ~HitStale
  /\ Mutations # <<>>
  /\ Carrying(GroupLabelOf(R.data)) = {R.found}

(***************************************************************************)
(* C7. A reconcile with zero firing alerts against a usable open ticket:   *)
(* when autoResolve is set and the reconcile succeeds, its calls are the   *)
(* lookup, field updates and possibly a comment, then one transition of    *)
(* that ticket to the autoResolve state, after which it issues nothing;    *)
(* when autoResolve is unset it issues no transition.  With the transition *)
(* available and no backend failure, the reconcile succeeds.               *)
(***************************************************************************)
FieldSyncOps == {"UpdateSummary", "AddComment", "UpdateDescription", "UpdatePriority"}

AutoResolvedLast ==
  LET n == Len(R.calls)
  IN  /\ n >= 3
      /\ R.calls[n] = Call("DoTransition", R.key, conf.AutoResolve[1].State, StatusOK)
      /\ R.calls[n - 1].op = "GetTransitions"
      /\ \A i \in 2..(n - 2) : R.calls[i].op \in FieldSyncOps /\ R.calls[i].key = R.key
      /\ issues[R.key].Status = conf.AutoResolve[1].State
      /\ flags.updateSummary => issues[R.key].Summary = Execute(conf.Summary, R.data).out
      /\ flags.updateDescription
           => issues[R.key].Description = Execute(conf.Description, R.data).out

ZeroFiringOnOpenTicket ==
  LookedUp /\ NumFiring(R) = 0 /\ R.key # 0 /\ R.hit.Status # "done"

C7_AutoResolveIsLast ==
  ZeroFiringOnOpenTicket =>
    /\ (Succeeded /\ conf.AutoResolve # <<>>) => AutoResolvedLast
    /\ conf.AutoResolve = <<>> => Issued({"GetTransitions", "DoTransition", "Create"}) = <<>>
    /\ (\A i \in DOMAIN R.calls : R.calls[i].ok) => Succeeded

C7_Witness ==
  /\ ZeroFiringOnOpenTicket /\ Succeeded /\ conf.AutoResolve # <<>>
  /\ Issued(FieldSyncOps) # <<>>
  /\ AutoResolvedLast

(***************************************************************************)
(* C8. When the lookup yields no usable ticket (none, or only a stale one) *)
(* and the notification carries zero firing alerts, the reconcile issues   *)
(* no mutation and returns success.                                        *)
(***************************************************************************)
C8_NothingToCreate ==
  (LookedUp /\ R.key = 0 /\ NumFiring(R) = 0)
    => /\ Mutations = <<>>
       /\ Len(R.calls) = 1
       /\ Succeeded /\ ~R.retry

C8_Witness ==
  /\ LookedUp /\ R.key = 0 /\ NumFiring(R) = 0
  /\ R.found # 0 /\ HitStale
  /\ Succeeded

(***************************************************************************)
(* C9. Under sequential delivery from an empty backend, with tickets       *)
(* otherwise changed only by external resolution, every group label is     *)
(* carried by at most one ticket that is open: neither resolved nor moved  *)
(* to the autoResolve state.                                               *)
(***************************************************************************)
OpenCarrying(gl) ==
  {k \in Carrying(toGroupTicketLabel(gl, flags.hashJiraLabel)) :
     issues[k].Status \in {NotDone, conf.ReopenState}}

C9_OneOpenTicketPerGroup == \A gl \in GroupLabelSets : Cardinality(OpenCarrying(gl)) <= 1

(***************************************************************************)
(* C10. Redelivery: a reconcile of the notification that the preceding     *)
(* reconcile handled successfully, with the backend untouched in between,  *)
(* issues no mutation, for every combination of comment mode, description  *)
(* mode and auto-resolve.                                                  *)
(***************************************************************************)
C10_RedeliveryIsNoOp == (Returned1 /\ R.redelivery) => Mutations = <<>>

(***************************************************************************)
(* Failure handling.                                                       *)
(***************************************************************************)
FailedCalls == {i \in DOMAIN R.calls : ~R.calls[i].ok}

RetryableStatuses == {500, 503, 429}

\* C11: whenever a backend call of a reconcile failed, the reconcile returns
\* an error, and it reports retryable exactly when that call was answered
\* with status 500, 503 or 429.
C11_RetryOnlyOnTransientStatus ==
  \A i \in FailedCalls :
    /\ R.pc = "done"
    /\ R.err # Nil
    /\ R.retry <=> R.calls[i].resp \in RetryableStatuses

\* A call answered with 429 made the reconcile retryable.
C11_Witness ==
  \E i \in FailedCalls : R.calls[i].resp = 429 /\ R.retry /\ R.err # Nil

\* C12: a backend call that failed without any response (a transport
\* timeout) makes the reconcile retryable.
C12_TimeoutIsRetryable ==
  \A i \in FailedCalls : R.calls[i].resp = NoResponse => R.retry

\* C13: the /alert handler answers 503 exactly when Notify returned an
\* error with retry set, an error status other than 503 when Notify returned
\* an error without retry, and counts a 200 only when Notify returned no error.
C13_HandlerStatus ==
  /\ R.status = StatusServiceUnavailable <=> (R.pc = "done" /\ R.err # Nil /\ R.retry)
  /\ (R.pc = "done" /\ R.err # Nil /\ ~R.retry) =>
        (R.status >= 400 /\ R.status # StatusServiceUnavailable)
  /\ R.status = StatusOK <=> (R.pc = "done" /\ R.err = Nil)

\* Notify failed on a call answered with 503 and the handler answered 503.
C13_Witness ==
  /\ R.status = StatusServiceUnavailable
  /\ \E i \in FailedCalls : R.calls[i].resp = 503

\* The effect of the successful call j of the reconcile is in the backend.
Applied(j) ==
  LET c == R.calls[j]
  IN  /\ c.op = "UpdateSummary" => issues[c.key].Summary = R.summary
      /\ c.op = "UpdateDescription" => issues[c.key].Description = R.desc
      /\ c.op = "UpdatePriority" => issues[c.key].Priority = <<R.priority>>
      /\ c.op = "AddComment" => R.desc \in Range(issues[c.key].Comments)

\* C14: a failed backend call is the last call of its reconcile, the reconcile
\* returns that error, and every mutation applied before it is still in the
\* backend.
C14_FirstErrorStops ==
  \A i \in FailedCalls :
    /\ i = Len(R.calls)
    /\ R.pc = "done" /\ R.err = "jira"
    /\ \A j \in 1..(i - 1) : R.calls[j].ok /\ Applied(j)

\* A summary update succeeded, the description update after it failed, and
\* the ticket carries the new summary but not the new description.
C14_Witness ==
  \E i \in FailedCalls :
    /\ R.calls[i].op = "UpdateDescription"
    /\ \E j \in 1..(i - 1) : R.calls[j].op = "UpdateSummary"
    /\ issues[R.key].Summary = R.summary
    /\ R.hit.Summary # R.summary
    /\ issues[R.key].Description # R.desc

\* The reconcile asked for the transition list and found no transition
\* named like the state it wanted.
TransitionMissing ==
  /\ R.calls # <<>>
  /\ R.calls[Len(R.calls)].op = "GetTransitions"
  /\ R.calls[Len(R.calls)].ok
  /\ TransitionIDs(R.target) = {}

RequestedStates ==
  {conf.ReopenState} \cup {conf.AutoResolve[i].State : i \in DOMAIN conf.AutoResolve}

\* C15: a reconcile that must reopen or auto-resolve a ticket whose
\* transition list has no transition named like the requested state applies
\* no transition, returns a final (retry=false) error carrying the requested
\* state and the ticket key, and leaves the ticket's status as it was.
C15_MissingTransitionIsFinal ==
  /\ [](TransitionMissing =>
          /\ R.pc = "done" /\ R.err = "no transition" /\ ~R.retry
          /\ R.errArgs = <<R.target, R.key>>
          /\ R.target \in RequestedStates /\ R.key = R.found
          /\ Issued({"DoTransition"}) = <<>>)
  /\ [][(ncalls' # ncalls /\ rc'[1].err = "no transition") =>
          /\ rc'[1].key \in DOMAIN issues
          /\ issues'[rc'[1].key].Status = issues[rc'[1].key].Status]_vars

\* An auto-resolve found no transition named like the auto-resolve state.
C15_Witness ==
  /\ TransitionMissing
  /\ NumFiring(R) = 0
  /\ R.target = AutoResolveDone.State
  /\ issues[R.key].Status = R.hit.Status

\* A reopen found no transition named like the reopen state.
C15_WitnessReopen ==
  /\ TransitionMissing
  /\ R.target = conf.ReopenState
  /\ R.hit.Status = "done"

\* C16: a reconcile that fails on rendering returns retry=false and has
\* issued no mutating call; under a configuration with a template that does
\* not render (project, summary, priority, description, issue type, a
\* component, or a string or key inside the fields map) every reconcile with
\* a firing alert whose lookup succeeded ends that way, and the backend is
\* never written.
C16_RenderFailureAborts ==
  /\ R.err = "render" => (R.pc = "done" /\ ~R.retry /\ Mutations = <<>>)
  /\ conf \in FailingConfigs =>
        /\ issues = <<>> /\ Mutations = <<>>
        /\ (R.pc = "done" /\ NumFiring(R) > 0 /\ FailedCalls = {}) => R.err = "render"

\* The lookup succeeded and the reconcile stopped on the key of a map nested
\* in the fields map.
C16_Witness ==
  /\ R.err = "render" /\ ~R.retry
  /\ Issued({"Search"}) # <<>>
  /\ \E i \in DOMAIN conf.Fields :
       /\ conf.Fields[i].val.kind = "map"
       /\ \E j \in DOMAIN conf.Fields[i].val.items :
            Execute(conf.Fields[i].val.items[j].key, R.data).err

(***************************************************************************)
(* Concurrent reconciles.                                                  *)
(***************************************************************************)
\* The lookup of r was answered, and held no ticket.
LookedUpNothing(r) ==
  r.calls # <<>> /\ r.calls[1].op = "Search" /\ r.calls[1].ok /\ r.calls[1].key = 0

\* Two reconciles of firing notifications of one group, both past a lookup
\* that returned nothing.
SameGroupRace ==
  /\ rc[1].label = rc[2].label
  /\ NumFiring(rc[1]) > 0 /\ NumFiring(rc[2]) > 0
  /\ LookedUpNothing(rc[1]) /\ LookedUpNothing(rc[2])

\* C17: reconciles of one group are not serialized: two firing notifications
\* of the same group can both finish their lookup before either creates, and
\* then each creates a ticket, leaving two tickets with the group's label.
C17_TwoTicketsForOneGroup ==
  SameGroupRace =>
    /\ \A p \in ConcProcs : rc[p].pc \in {"Create", "done"}
    /\ (\A p \in ConcProcs : rc[p].pc = "done") =>
          /\ \A p \in ConcProcs : rc[p].err = Nil /\ rc[p].calls[2].op = "Create"
          /\ rc[1].calls[2].key # rc[2].calls[2].key
          /\ Carrying(rc[1].label) = {rc[1].calls[2].key, rc[2].calls[2].key}

\* Both lookups found the backend empty, both reconciles returned, and two
\* tickets carry the label.
C17_Witness ==
  /\ SameGroupRace
  /\ \A p \in ConcProcs : rc[p].pc = "done" /\ rc[p].start = <<>>
  /\ Cardinality(Carrying(rc[1].label)) = 2

\* What a step of reconcile p may write: the ticket its lookup returned, which
\* carries its label and keeps it, or one new ticket carrying its label.
OwnWritesOnly(p) ==
  /\ Len(issues') \in {Len(issues), Len(issues) + 1}
  /\ \A k \in DOMAIN issues' :
       IF k \in DOMAIN issues
       THEN issues'[k] # issues[k] =>
              /\ k = rc[p].found
              /\ rc[p].label \in Range(issues[k].Labels)
              /\ issues'[k].Labels = issues[k].Labels
              /\ issues'[k].Project = issues[k].Project
       ELSE rc'[p].label \in Range(issues'[k].Labels)

\* The tickets of a group, whatever their keys.
GroupTickets(iss, label) ==
  {[iss[k] EXCEPT !.Key = 0] : k \in {j \in DOMAIN iss : label \in Range(iss[j].Labels)}}

Ops(calls) == [i \in DOMAIN calls |-> [op |-> calls[i].op, ok |-> calls[i].ok]]

\* Reconcile p returned what it would have returned alone, and left its
\* group's tickets as it would have left them alone.
SameAsAlone(p) ==
  LET alone == Alone(rc[p].data, rc[p].start, conf, flags)
  IN  /\ Ops(rc[p].calls) = Ops(alone.r.calls)
      /\ rc[p].err = alone.r.err /\ rc[p].retry = alone.r.retry
      /\ GroupTickets(issues, rc[p].label) = GroupTickets(alone.iss, rc[p].label)

RECURSIVE JoinPairs(_)
JoinPairs(pairs) ==
  IF pairs = <<>> THEN <<>>
  ELSE Head(pairs).Name \o <<"=">> \o Quote(Head(pairs).Value)
         \o (IF Tail(pairs) = <<>> THEN <<>> ELSE <<",">> \o JoinPairs(Tail(pairs)))

SortedByKey(pairs) ==
  \A i, j \in DOMAIN pairs : i < j => StrLess(pairs[i].Name, pairs[j].Name)

\* ALERT{k1="v1",k2="v2"}, all spaces removed.
PlainLabel(kv) ==
  RemoveSpaces(<<"A", "L", "E", "R", "T", "{">> \o JoinPairs(SortedPairs(kv)) \o <<"}">>)

LabelAsStated(p) ==
  LET kv == rc[p].data.GroupLabels
  IN  /\ SortedByKey(SortedPairs(kv))
      /\ \A q \in ConcProcs :
           (rc[q].pc = "label" /\ rc[q].data.GroupLabels = kv) => rc[q].label = rc[p].label
      /\ IF flags.hashJiraLabel
         THEN /\ SubSeq(rc[p].label, 1, 9) = <<"J", "I", "R", "A", "L", "E", "R", "T", "{">>
              /\ rc[p].label[Len(rc[p].label)] = "}"
         ELSE rc[p].label = PlainLabel(kv)

\* C19: the group label is a function of the set of pairs alone, however the
\* pairs were put in: in plain mode it is ALERT{k1="v1",k2="v2"}, the pairs
\* sorted by key and no comma after the last; in hashed mode it is
\* JIRALERT{digest}, the same for the same set.
C19_LabelOfPairSet ==
  \A p \in ConcProcs : rc[p].pc = "label" => LabelAsStated(p)

\* The same for every set that holds at least one pair.
LabelOfNonEmptyPairSet ==
  \A p \in ConcProcs :
    (rc[p].pc = "label" /\ DOMAIN rc[p].data.GroupLabels # {}) => LabelAsStated(p)

\* Two KVs filled with the same three pairs carry the same plain label.
LabelOfNonEmptyPairSetReached ==
  /\ ~flags.hashJiraLabel
  /\ \A p \in ConcProcs : rc[p].pc = "label"
  /\ Cardinality(DOMAIN rc[1].data.GroupLabels) = MaxLabels
  /\ rc[1].data.GroupLabels = rc[2].data.GroupLabels
  /\ rc[1].label = rc[2].label

(***************************************************************************)
(* The label of the lookup and the label of the created ticket.            *)
(***************************************************************************)
\* The tickets this reconcile created.
CreatedNow == {R.calls[i].key : i \in {j \in DOMAIN R.calls : R.calls[j].op = "Create"
                                                              /\ R.calls[j].ok}}

\* The tickets the query of this reconcile's lookup matched.
MatchedByLookup ==
  Matches(issues, projectsToSearch(R.project, conf), R.label) \ CreatedNow

Loaded == config.outcome \in {"ok", "error", "panic"}

\* The value the defaults give to a key; none without a defaults section.
DefaultOf(f) ==
  IF config.input.Defaults = <<>> THEN EmptyReceiver[f] ELSE config.input.Defaults[1][f]

\* The required keys receiver i has neither of its own nor from the defaults.
MissingIn(i) ==
  {j \in DOMAIN RequiredFields :
     /\ IsEmpty(RequiredFields[j], config.input.Receivers[i][RequiredFields[j]])
     /\ IsEmpty(RequiredFields[j], DefaultOf(RequiredFields[j]))}

\* The checks that come before the required keys pass for every receiver.
AccessLoads ==
  /\ config.input.Defaults # <<>> => UnmarshalYAML(File(config.input.Defaults, <<>>)).err.kind
                                       = "no receivers defined"
  /\ \A i \in DOMAIN config.input.Receivers :
       /\ config.input.Receivers[i].Name # "" /\ config.input.Receivers[i].XXX = {}
       /\ LoadAccess(config.input.Receivers[i],
                     [f \in DOMAIN EmptyReceiver |-> DefaultOf(f)]).err = NoError

RequiredAsStated ==
  /\ (\E i \in DOMAIN config.input.Receivers : MissingIn(i) # {}) =>
        /\ config.outcome = "error"
        /\ AccessLoads =>
              \E i \in DOMAIN config.input.Receivers :
                /\ MissingIn(i) # {}
                /\ \A h \in 1..(i - 1) : MissingIn(h) = {}
                /\ config.err = LoadError("missing",
                                          YamlKey[RequiredFields[
                                            CHOOSE j \in MissingIn(i) :
                                              \A k \in MissingIn(i) : j <= k]],
                                          config.input.Receivers[i].Name)
  /\ ((\A i \in DOMAIN config.input.Receivers : MissingIn(i) = {}) /\ AccessLoads
        /\ config.input.Receivers # <<>>) =>
        /\ config.outcome \in {"ok", "error"}
        /\ config.outcome = "error" => config.err.kind # "missing"
  /\ config.outcome = "ok" =>
        \A i \in DOMAIN config.Receivers : \A j \in DOMAIN RequiredFields :
          LET f == RequiredFields[j]
              own == config.input.Receivers[i][f]
          IN  /\ ~IsEmpty(f, config.Receivers[i][f])
              /\ config.Receivers[i][f] = IF IsEmpty(f, own) THEN DefaultOf(f) ELSE own

\* C21: a file in which a receiver has one of project, issue_type, summary,
\* reopen_state, reopen_duration neither of its own nor from the defaults
\* fails to load, with "missing <key> in receiver <name>" when the checks
\* before it pass; otherwise each receiver keeps its own value and takes the
\* defaults' value only where it has none, so that after a successful load
\* every receiver has the five keys set.
C21_RequiredKeys == Loaded => RequiredAsStated

\* The same for every file that has a defaults section.
RequiredKeysWithDefaults == (Loaded /\ config.input.Defaults # <<>>) => RequiredAsStated

\* A receiver without project and summary took both from the defaults and
\* kept its own issue type.
RequiredKeysWithDefaultsReached ==
  /\ config.outcome = "ok"
  /\ config.input.Receivers[1].Project = "" /\ config.input.Receivers[1].Summary = ""
  /\ config.Receivers[1].Project = "D" /\ config.Receivers[1].Summary = "d-summary"
  /\ config.Receivers[1].IssueType = "r-type"

Count(seq, x) == Cardinality({i \in DOMAIN seq : seq[i] = x})

\* C22: after a load, the static labels of each receiver are the labels of
\* its own list together with the labels of the defaults' list, each as many
\* times as the two lists hold it, whichever of the lists are empty.
C22_StaticLabelsMerged ==
  config.outcome = "ok" =>
    \A i \in DOMAIN config.Receivers :
      LET own == config.input.Receivers[i].StaticLabels
          dflt == config.input.Defaults[1].StaticLabels
          merged == config.Receivers[i].StaticLabels
      IN  /\ Len(merged) = Len(own) + Len(dflt)
          /\ \A x \in Range(own) \cup Range(dflt) \cup Range(merged) :
               Count(merged, x) = Count(own, x) + Count(dflt, x)

\* Both lists hold the same two labels: the receiver ends up with four.
C22_Witness ==
  /\ config.outcome = "ok"
  /\ config.input.Receivers[1].StaticLabels = <<"a", "b">>
  /\ config.input.Defaults[1].StaticLabels = <<"b", "a">>
  /\ Len(config.Receivers[1].StaticLabels) = 4

(***************************************************************************)
(* Durations.                                                              *)
(***************************************************************************)
DurationParsed == config.outcome \in {"invalid", "duration"}

\* <decimal integer><unit>: one digit or more, then one of the seven units.
WellFormed(str) ==
  \E n \in 1..Len(str) :
    /\ \A i \in 1..n : str[i] \in DOMAIN DigitValue
    /\ SubSeq(str, n + 1, Len(str)) \in DurationUnits

\* The nanoseconds of the n units that str names, exactly, on eight limbs.
ExactDuration(str) ==
  LET n == CHOOSE k \in 1..Len(str) :
             /\ \A i \in 1..k : str[i] \in DOMAIN DigitValue
             /\ SubSeq(str, k + 1, Len(str)) \in DurationUnits
      unit == SubSeq(str, n + 1, Len(str))
  IN  MulAll(Decimal(SubSeq(str, 1, n), <<0, 0, 0, 0, 0, 0, 0, 0>>),
             <<1000, 1000>> \o UnitFactors(IF unit = <<"m", "s">> THEN <<"ms">> ELSE unit))

FitsDuration(exact) == (\A i \in 5..8 : exact[i] = 0) /\ exact[4] < 32768

DurationAsStated(str) ==
  IF WellFormed(str)
  THEN /\ config.outcome = "duration"
       /\ config.ReopenDuration[4] < 32768
       /\ config.ReopenDuration \o <<0, 0, 0, 0>> = ExactDuration(str)
  ELSE config.outcome = "invalid"

\* C23: every string <decimal integer n><unit> with unit among y, w, d, h,
\* m, s, ms parses, without error, to the non-negative duration of exactly n
\* units (1y = 365d, 1w = 7d, 1d = 24h), however large n is; every other
\* string is rejected with an error.
C23_ParseDuration == DurationParsed => DurationAsStated(config.reopen_duration)

\* What does hold: the same, for the strings whose n units fit a 64-bit
\* count of nanoseconds.
ParseDurationInRange ==
  (/\ DurationParsed
   /\ WellFormed(config.reopen_duration) => FitsDuration(ExactDuration(config.reopen_duration)))
    => DurationAsStated(config.reopen_duration)

ParseDurationInRangeReached ==
  /\ config.outcome = "duration"
  /\ config.reopen_duration = <<"2", "9", "2", "y">>
  /\ config.ReopenDuration[4] >= 16384

(***************************************************************************)
(* The synchronisation of a matched ticket.                                *)
(***************************************************************************)
SyncRank ==
  ("UpdateSummary" :> 1) @@ ("AddComment" :> 2) @@ ("UpdateDescription" :> 3)
    @@ ("UpdatePriority" :> 4) @@ ("DoTransition" :> 5)

\* This step is a whole reconcile that reused the ticket its lookup returned.
ReconciledMatch == rc'[1].pc = "done" /\ ncalls' = ncalls + 1 /\ rc'[1].key # 0

MutationsOf(r) == SelectSeq(r.calls, LAMBDA c : c.op \in MutatingOps)

InSyncOrder(r) ==
  LET m == MutationsOf(r)
  IN  /\ \A i \in DOMAIN m : m[i].op \in DOMAIN SyncRank /\ m[i].key = r.key
      /\ \A i, j \in DOMAIN m : i < j => SyncRank[m[i].op] < SyncRank[m[j].op]

\* The comment step was reached: no call before it failed.
ReachedCommentStep(r) == \A i \in DOMAIN r.calls : r.calls[i].op = "UpdateSummary" => r.calls[i].ok

Commented(r) == \E i \in DOMAIN r.calls : r.calls[i].op = "AddComment"

\* C24: on a matched ticket the mutations of one reconcile are issued in the
\* order summary update, comment, description update, priority update,
\* transition; and on a ticket without comments the comment is issued exactly
\* when the rendered description differs from the description the ticket had
\* before the reconcile, whatever the description update then writes.
C24_SyncOrder ==
  [][ReconciledMatch =>
       /\ InSyncOrder(rc'[1])
       /\ (conf.UpdateInComment /\ issues[rc'[1].key].Comments = <<>>
             /\ ReachedCommentStep(rc'[1]))
            => (Commented(rc'[1]) <=> issues[rc'[1].key].Description # rc'[1].desc)]_vars

\* All five mutations in one reconcile: the comment was added although the
\* description, updated after it, now equals it.
C24_Witness ==
  /\ Succeeded /\ R.key # 0
  /\ [i \in DOMAIN Mutations |-> Mutations[i].op]
       = <<"UpdateSummary", "AddComment", "UpdateDescription", "UpdatePriority", "DoTransition">>
  /\ R.hit.Comments = <<>>
  /\ issues[R.key].Comments = <<issues[R.key].Description>>

\* No call of the reconcile failed up to and including the comment step.
CommentStepPassed(r) ==
  \A i \in DOMAIN r.calls : r.calls[i].op \in {"UpdateSummary", "AddComment"} => r.calls[i].ok

\* The rendered description repeats what the ticket last said.
RepeatsLast(ticket, desc) ==
  \/ ticket.Comments # <<>> /\ ticket.Comments[Len(ticket.Comments)] = desc
  \/ ticket.Comments = <<>> /\ ticket.Description = desc

NoCommentRepeated ==
  \A k \in DOMAIN issues :
    \A i \in 1..(Len(issues[k].Comments) - 1) : issues[k].Comments[i] # issues[k].Comments[i + 1]

\* C25: in comment mode a reconcile adds to the ticket it reuses exactly one
\* comment, the rendered description, unless the rendered description equals
\* the ticket's most recent comment or, the ticket having no comments, its
\* description: then it adds none.  Hence no ticket ever carries two equal
\* comments in a row.
C25_CommentMode ==
  /\ [](NoCommentRepeated)
  /\ [][(ReconciledMatch /\ conf.UpdateInComment /\ CommentStepPassed(rc'[1]))
         => issues'[rc'[1].key].Comments
              = IF RepeatsLast(issues[rc'[1].key], rc'[1].desc)
                THEN issues[rc'[1].key].Comments
                ELSE Append(issues[rc'[1].key].Comments, rc'[1].desc)]_vars

\* A comment was added, and the reconcile after it, rendering the same
\* description, added none.
C25_Witness ==
  /\ Succeeded /\ R.key # 0 /\ conf.UpdateInComment
  /\ Len(R.hit.Comments) = 1
  /\ R.hit.Comments[1] = R.desc
  /\ R.hit.Description # R.desc
  /\ issues[R.key].Comments = R.hit.Comments

\* This step is a whole reconcile.
Reconciled == rc'[1].pc = "done" /\ ncalls' = ncalls + 1

\* Every call op of the reconcile r was allowed by the flag and aimed at a
\* ticket whose value, before the reconcile, was not the rendered one.
Gated(r, op, flag, field, rendered) ==
  \A i \in DOMAIN r.calls :
    r.calls[i].op = op
      => /\ flags[flag]
         /\ r.calls[i].key \in DOMAIN issues
         /\ issues[r.calls[i].key][field] # rendered

\* C26: a reconcile issues an update of the summary (description, priority)
\* of a ticket only with updateSummary (updateDescription, updatePriority)
\* set, and then only when the rendered value differs from the value the
\* ticket has.
C26_FlagsGateUpdates ==
  [][Reconciled =>
       /\ Gated(rc'[1], "UpdateSummary", "updateSummary", "Summary",
                Execute(conf.Summary, rc'[1].data).out)
       /\ Gated(rc'[1], "UpdateDescription", "updateDescription", "Description",
                Truncate(Execute(conf.Description, rc'[1].data).out,
                         flags.maxDescriptionLength))
       /\ Gated(rc'[1], "UpdatePriority", "updatePriority", "Priority",
                <<Execute(conf.Priority, rc'[1].data).out>>)]_vars

\* With updateSummary off, a reused ticket keeps a summary that is not the
\* rendered one while its description is updated.
C26_Witness ==
  /\ Succeeded /\ R.key # 0 /\ ~flags.updateSummary
  /\ R.hit.Summary # Execute(conf.Summary, R.data).out
  /\ issues[R.key].Summary = R.hit.Summary
  /\ Issued({"UpdateSummary"}) = <<>>
  /\ Issued({"UpdateDescription"}) # <<>>

(***************************************************************************)
(* Reopening switched off, and the reopen window switched off.             *)
(***************************************************************************)
AllCallsOk == \A i \in DOMAIN R.calls : R.calls[i].ok

\* A firing notification whose lookup returned a resolved ticket within the
\* reopen window, reopening being disabled.
ReopenDisabledHit ==
  /\ LookedUp /\ NumFiring(R) >= 1 /\ R.found # 0
  /\ R.hit.Status = "done" /\ HitWithinWindow
  /\ ~flags.reopenTickets

\* C27: with reopenTickets false, a firing notification whose lookup returns
\* a resolved ticket within the reopen window asks for no transition and
\* creates no ticket; the reconcile synchronises the fields of that ticket,
\* leaves it resolved and, no backend call having failed, returns success.
C27_ReopenDisabled ==
  ReopenDisabledHit =>
    /\ Issued({"Create", "GetTransitions", "DoTransition"}) = <<>>
    /\ \A i \in DOMAIN Mutations :
         /\ Mutations[i].key = R.found
         /\ Mutations[i].op \in {"UpdateSummary", "AddComment", "UpdateDescription",
                                 "UpdatePriority"}
    /\ issues[R.found].Status = "done"
    /\ AllCallsOk => (R.err = Nil /\ R.status = StatusOK)

C27_Witness ==
  /\ ReopenDisabledHit /\ Succeeded /\ ~HitExempt
  /\ Issued({"UpdateDescription"}) # <<>>
  /\ TransitionIDs(conf.ReopenState) # {}

\* The lookup returned a ticket that no window can make stale: reopenDuration
\* is zero, or the ticket has no resolution timestamp.
WindowlessHit ==
  /\ LookedUp /\ R.found # 0
  /\ conf.ReopenDuration = 0 \/ R.hit.Resolutiondate = 0

ReusedHit ==
  /\ Issued({"Create"}) = <<>>
  /\ \A i \in DOMAIN Mutations : Mutations[i].key = R.found
  /\ CreatedNow = {}

ResolvedNotExemptHit == Succeeded /\ NumFiring(R) >= 1 /\ R.hit.Status = "done" /\ ~HitExempt

\* C28 as stated: with reopenDuration zero, or on a ticket with no resolution
\* timestamp, the ticket the lookup returns is reused whatever the age of its
\* resolution, no ticket is created, and a firing notification reopens it
\* when it is resolved and not exempt.
C28_AsClaimed ==
  WindowlessHit => (ReusedHit /\ (ResolvedNotExemptHit => ReopenedHit))

\* C28, amended: the same, the reopening being applied when reopenTickets is
\* set; with it unset the ticket is reused and left resolved.
C28_ZeroWindowNeverStale ==
  WindowlessHit =>
    /\ ReusedHit
    /\ ResolvedNotExemptHit
         => IF flags.reopenTickets THEN ReopenedHit
            ELSE Issued({"GetTransitions", "DoTransition"}) = <<>>

\* A ticket resolved at 1 is reopened at 3 under a reopen duration of zero.
C28_Witness ==
  /\ WindowlessHit /\ ResolvedNotExemptHit /\ flags.reopenTickets
  /\ conf.ReopenDuration = 0
  /\ R.hit.Resolutiondate = 1 /\ now = MaxTime
  /\ ReopenedHit

(***************************************************************************)
(* A lookup that matches several tickets.                                  *)
(***************************************************************************)
\* The tickets that the query of the reconcile r matches before r runs.
MatchedBefore(r) == Matches(issues, projectsToSearch(r.project, conf), r.label)

\* This step is a whole reconcile whose lookup was answered with several
\* tickets; the first of them is the key of the Search call.
ReconciledSeveral ==
  /\ Reconciled
  /\ Len(rc'[1].calls) > 0 /\ rc'[1].calls[1].ok
  /\ Cardinality(MatchedBefore(rc'[1])) > 1

\* The first returned ticket is outside a non-zero reopen window.
FirstIsStale(first) ==
  /\ issues[first].Resolutiondate # 0
  /\ conf.ReopenDuration # 0
  /\ issues[first].Resolutiondate + conf.ReopenDuration < now

\* C29: when the lookup returns more than one ticket the reconcile acts on
\* the first returned only: it creates a ticket exactly on the staleness of
\* the first, whatever the others are; every update, comment and transition
\* targets the first; every other returned ticket is left as it was.
C29_FirstMatchOnly ==
  [][ReconciledSeveral =>
       LET r == rc'[1]
           first == r.calls[1].key
       IN  /\ first \in MatchedBefore(r)
           /\ \A i \in DOMAIN r.calls :
                /\ r.calls[i].op \in MutatingOps \ {"Create"} => r.calls[i].key = first
                /\ r.calls[i].op \in MutatingOps => ~FirstIsStale(first) \/ r.calls[i].op = "Create"
                /\ r.calls[i].op = "Create" => FirstIsStale(first)
           /\ \A k \in MatchedBefore(r) \ {first} : issues'[k] = issues[k]]_vars

\* Two tickets carry the group label; the first returned is reopened, the
\* other is left stale and resolved.
C29_Witness ==
  /\ Succeeded /\ R.nmatch > 1 /\ R.key # 0
  /\ Issued({"DoTransition"}) # <<>>
  /\ \E k \in MatchedByLookup \ {R.found} : issues[k].Status = "done"

(***************************************************************************)
(* Tickets in other projects.                                              *)
(***************************************************************************)
\* The tickets with the label of the reconcile r in its rendered project or
\* in one of the configured other projects, before r runs.
InSearchedProjects(r) ==
  {k \in DOMAIN issues :
     /\ issues[k].Project \in {Execute(conf.Project, r.data).out} \cup Range(conf.OtherProjects)
     /\ r.label \in Range(issues[k].Labels)}

\* C30: the lookup returns a ticket exactly when one with the group label
\* lies in the rendered project or in a configured other project, and
\* returns one of those; such a ticket, when not stale, is reused and no
\* ticket is created; and every ticket a reconcile creates is created in the
\* rendered project.
C30_OtherProjects ==
  [][(Reconciled /\ Len(rc'[1].calls) > 0 /\ rc'[1].calls[1].ok) =>
       LET r == rc'[1]
           first == r.calls[1].key
       IN  /\ first = 0 <=> InSearchedProjects(r) = {}
           /\ first # 0 => first \in InSearchedProjects(r)
           /\ (first # 0 /\ ~FirstIsStale(first))
                => \A i \in DOMAIN r.calls :
                     r.calls[i].op \in MutatingOps
                       => r.calls[i].op # "Create" /\ r.calls[i].key = first
           /\ \A i \in DOMAIN r.calls :
                (r.calls[i].op = "Create" /\ r.calls[i].ok)
                  => issues'[r.calls[i].key].Project = Execute(conf.Project, r.data).out]_vars

\* A ticket moved to the other project is reopened there, and it is the only
\* ticket of its group.
C30_Witness ==
  /\ Succeeded /\ R.key # 0
  /\ issues[R.key].Project = <<"xyz">>
  /\ R.project = <<"abc">>
  /\ Issued({"DoTransition"}) # <<>>
  /\ Carrying(R.label) = {R.key}

(***************************************************************************)
(* The length of descriptions.                                             *)
(***************************************************************************)
\* The characters of a text: every byte but the second of a two-byte one.
Characters(text) == Len(SelectSeq(text, LAMBDA b : b # "e:2"))

\* The first n characters of a text, whole.
FirstCharacters(text, n) ==
  LET k == CHOOSE k \in 0..Len(text) :
             /\ k < Len(text) => text[k + 1] # "e:2"
             /\ Characters(SubSeq(text, 1, k))
                  = (IF Characters(text) > n THEN n ELSE Characters(text))
  IN  SubSeq(text, 1, k)

\* The description texts the backend received in this step: the description
\* of a ticket created or updated, the comment added.
SentDescriptions ==
  {issues'[rc'[1].calls[i].key].Description :
     i \in {j \in DOMAIN rc'[1].calls : rc'[1].calls[j].op \in {"Create", "UpdateDescription"}}}
  \cup {issues'[rc'[1].calls[i].key].Comments[Len(issues'[rc'[1].calls[i].key].Comments)] :
          i \in {j \in DOMAIN rc'[1].calls : rc'[1].calls[j].op = "AddComment"}}

\* C31: every description text a reconcile sends, in a create, a description
\* update or a comment, has at most maxDescriptionLength characters: it is
\* the rendered description when that is not longer, and exactly its first
\* maxDescriptionLength characters when it is.
C31_DescriptionTruncated ==
  [][Reconciled =>
       \A sent \in SentDescriptions :
         /\ Characters(sent) <= flags.maxDescriptionLength
         /\ sent = FirstCharacters(Execute(conf.Description, rc'[1].data).out,
                                   flags.maxDescriptionLength)]_vars

\* What does hold: the text sent is the rendered description cut to its first
\* maxDescriptionLength bytes, and that text is what the ticket's description
\* and last comment are compared with.
DescriptionCutByBytes ==
  [][Reconciled =>
       LET full == Execute(conf.Description, rc'[1].data).out
           cut == IF Len(full) > flags.maxDescriptionLength
                  THEN SubSeq(full, 1, flags.maxDescriptionLength) ELSE full
       IN  /\ \A sent \in SentDescriptions : sent = cut
           /\ rc'[1].key # 0 =>
                /\ issues'[rc'[1].key].Description = cut
                /\ (\E i \in DOMAIN rc'[1].calls : rc'[1].calls[i].op = "UpdateDescription")
                     <=> issues[rc'[1].key].Description # cut
                /\ conf.UpdateInComment =>
                     ((\E i \in DOMAIN rc'[1].calls : rc'[1].calls[i].op = "AddComment")
                        <=> ~RepeatsLast(issues[rc'[1].key], cut))]_vars

\* A description cut in the middle of a two-byte character.
DescriptionCutByBytesReached ==
  /\ Succeeded /\ R.key # 0
  /\ issues[R.key].Description = <<"a", "e:1">>
  /\ Issued({"UpdateDescription"}) = <<>>

(***************************************************************************)
(* The labels of a created ticket.                                         *)
(***************************************************************************)
\* The requests that have returned after creating a ticket, with its key.
Creations ==
  UNION {{<<p, rc[p].calls[i].key>> :
            i \in {j \in DOMAIN rc[p].calls : rc[p].calls[j].op = "Create" /\ rc[p].calls[j].ok}} :
         p \in DOMAIN rc}

KeyValueLabels(groupLabels) ==
  {k \o <<"=">> \o Quote(groupLabels[k]) : k \in DOMAIN groupLabels}

LabelsAsStated(labels, data) ==
  LET n == Len(conf.StaticLabels)
      group == toGroupTicketLabel(data.GroupLabels, flags.hashJiraLabel)
      rest == SubSeq(labels, n + 2, Len(labels))
  IN  /\ Len(labels) > n
      /\ SubSeq(labels, 1, n) = conf.StaticLabels
      /\ labels[n + 1] = group
      /\ Cardinality({i \in DOMAIN labels : labels[i] = group}) = 1
      /\ IF conf.AddGroupLabels
         THEN /\ Len(rest) = Cardinality(DOMAIN data.GroupLabels)
              /\ Range(rest) = KeyValueLabels(data.GroupLabels)
         ELSE rest = <<>>

\* C32: the labels of a newly created ticket are the configured static
\* labels in their order, then the group label of the notification, then,
\* only with addGroupLabels, one key="value" label per group label; the
\* group label is present exactly once.
C32_LabelsOfNewTicket ==
  \A c \in Creations : LabelsAsStated(issues[c[2]].Labels, rc[c[1]].data)

\* What does hold: the same, when the labels of the issue are not a view of
\* the array of the configuration's static labels.
LabelsOfNewTicketUnshared ==
  (Len(config.array) = Len(conf.StaticLabels) \/ conf.AddGroupLabels)
    => \A c \in Creations : LabelsAsStated(issues[c[2]].Labels, rc[c[1]].data)

LabelsOfNewTicketUnsharedReached ==
  /\ conf.AddGroupLabels /\ Len(config.array) > Len(conf.StaticLabels)
  /\ \E c, d \in Creations : rc[c[1]].label # rc[d[1]].label

\* C33: reconciles leave the receiver configuration as it was, in any
\* interleaving: its static labels are the labels loaded, and the ticket
\* created for one notification carries no label added for another.
C33_ConfigNeverModified ==
  /\ conf.StaticLabels = SubSeq(config.array, 1, Len(conf.StaticLabels))
  /\ \A c \in Creations :
       \A q \in DOMAIN rc :
         (rc[q].pc # "idle" /\ rc[q].label # rc[c[1]].label)
           => rc[q].label \notin Range(issues[c[2]].Labels)

(***************************************************************************)
(* Distinct groups, distinct labels.                                       *)
(***************************************************************************)
\* Two group label sets that differ, each with its plain label computed.
TwoGroups ==
  /\ ~flags.hashJiraLabel
  /\ rc[1].pc = "label" /\ rc[2].pc = "label"
  /\ rc[1].data.GroupLabels # rc[2].data.GroupLabels

NoSpaceIn(kv) == \A k \in DOMAIN kv : ~Contains(kv[k], " ") /\ ~Contains(k, " ")

\* C34: in plain mode two group label sets that differ in a key or in a
\* value have different labels.
C34_PlainLabelInjective == TwoGroups => rc[1].label # rc[2].label

\* What does hold: the same for group label sets without spaces.
PlainLabelInjectiveWithoutSpaces ==
  (TwoGroups /\ NoSpaceIn(rc[1].data.GroupLabels) /\ NoSpaceIn(rc[2].data.GroupLabels))
    => rc[1].label # rc[2].label

PlainLabelInjectiveWithoutSpacesReached ==
  /\ TwoGroups /\ NoSpaceIn(rc[1].data.GroupLabels) /\ NoSpaceIn(rc[2].data.GroupLabels)
  /\ DOMAIN rc[1].data.GroupLabels = DOMAIN rc[2].data.GroupLabels
  /\ Cardinality(DOMAIN rc[1].data.GroupLabels) = MaxLabels

(***************************************************************************)
(* No priority configured.                                                 *)
(***************************************************************************)
\* C35: a receiver with no priority configured never issues a priority
\* update on a matched ticket, whatever priority the ticket carries, and
\* creates its tickets without a priority.
C35_NoPriorityConfigured ==
  (Returned1 /\ conf.Priority = <<>>)
    => /\ Issued({"UpdatePriority"}) = <<>>
       /\ \A k \in CreatedNow : issues[k].Priority = <<>>

\* What does hold: the tickets such a receiver creates carry no priority, and
\* it issues a priority update on none that carries none.
NoPrioritySentOnCreate ==
  (Returned1 /\ conf.Priority = <<>>)
    => /\ \A k \in CreatedNow : issues[k].Priority = <<>>
       /\ Issued({"UpdatePriority"}) # <<>> => R.hit.Priority # <<>>

NoPrioritySentOnCreateReached ==
  /\ Succeeded /\ conf.Priority = <<>>
  /\ CreatedNow # {}
  /\ \E k \in DOMAIN issues : issues[k].Priority = <<<<"High">>>>

(***************************************************************************)
(* Auto-resolve and tickets already resolved.                              *)
(***************************************************************************)
\* A notification without firing alerts whose lookup returned a ticket of
\* status category "done" that is reused.
ResolvedHitNoFiring ==
  /\ LookedUp /\ NumFiring(R) = 0
  /\ R.key # 0 /\ R.hit.Status = "done"

NoTransitionAsked ==
  /\ Issued({"GetTransitions", "DoTransition"}) = <<>>
  /\ AllCallsOk => R.err = Nil

\* C36: a notification with no firing alert that matches a ticket already
\* in status category "done" asks for no list of transitions, applies no
\* transition and returns success.
C36_AutoResolveOnlyWhenOpen == ResolvedHitNoFiring => NoTransitionAsked

\* What does hold: the same for a receiver without auto-resolve.
NoAutoResolveNoTransition ==
  (ResolvedHitNoFiring /\ conf.AutoResolve = <<>>) => NoTransitionAsked

NoAutoResolveNoTransitionReached ==
  /\ ResolvedHitNoFiring /\ conf.AutoResolve = <<>> /\ Succeeded
  /\ Mutations # <<>>

(***************************************************************************)
(* Authentication after the load.                                          *)
(***************************************************************************)
BasicOnly(rcv) == rcv.User # "" /\ rcv.Password # "" /\ rcv.PersonalAccessToken = ""

TokenOnly(rcv) == rcv.PersonalAccessToken # "" /\ rcv.User = "" /\ rcv.Password = ""

\* C37: after a successful load every receiver has either user and password
\* both set and no personal access token, or a personal access token and
\* neither user nor password.
C37_OneAuthMethod ==
  config.outcome = "ok" => \A i \in DOMAIN config.Receivers :
              BasicOnly(config.Receivers[i]) \/ TokenOnly(config.Receivers[i])

\* What does hold: every loaded receiver has user and password both set, or
\* a personal access token, and never both.
OneUsableAuthMethod ==
  config.outcome = "ok" => \A i \in DOMAIN config.Receivers :
              (config.Receivers[i].User # "" /\ config.Receivers[i].Password # "")
                # (config.Receivers[i].PersonalAccessToken # "")

OneUsableAuthMethodReached ==
  /\ config.outcome = "ok"
  /\ config.Receivers[1].PersonalAccessToken # ""
  /\ config.input.Receivers[1].PersonalAccessToken = ""
  /\ config.Receivers[1].User = "" /\ config.Receivers[1].Password = ""

(***************************************************************************)
(* The set of Jira clients, one per user (package clientset).  The state   *)
(* of the ClientSet is kept in config: the map jira (id 0 is the nil map), *)
(* the goroutines holding the read lock, and a log of what was written to  *)
(* the map under which lock, of the clients stored and of what every call  *)
(* returned.  The exclusive lock is taken and released within one step.    *)
(***************************************************************************)
MaxClientCalls == 3

\* Receivers as a load leaves them: user and password, or a token, the
\* last one a token inherited beside a user.
ClientReceivers ==
  {[APIURL |-> "a", User |-> "u", Password |-> "p", PersonalAccessToken |-> ""],
   [APIURL |-> "b", User |-> "u", Password |-> "q", PersonalAccessToken |-> ""],
   [APIURL |-> "a", User |-> "v", Password |-> "p", PersonalAccessToken |-> ""],
   [APIURL |-> "a", User |-> "", Password |-> "", PersonalAccessToken |-> "s"],
   [APIURL |-> "b", User |-> "", Password |-> "", PersonalAccessToken |-> "t"],
   [APIURL |-> "a", User |-> "u", Password |-> "", PersonalAccessToken |-> "t"]}

NilReceiver ==
  [APIURL |-> Nil, User |-> Nil, Password |-> Nil, PersonalAccessToken |-> Nil]

NilClient == [id |-> 0, APIURL |-> "", auth |-> <<>>]

\* The transport a client is built with: basic authentication when user and
\* password are set, else the token, else none.
Transport(cf) ==
  IF cf.User # "" /\ cf.Password # "" THEN <<"basic", cf.User, cf.Password>>
  ELSE IF cf.PersonalAccessToken # "" THEN <<"token", cf.PersonalAccessToken>>
  ELSE <<>>

\* Lines 52-67: the client built for a receiver; without credentials the
\* client stays nil and so does the error.
NewClient(cf, id) ==
  IF Transport(cf) = <<>> THEN NilClient
  ELSE [id |-> id, APIURL |-> cf.APIURL, auth |-> Transport(cf)]

IdleCall == [pc |-> "idle", conf |-> NilReceiver]

ClientsInit ==
  /\ issues = <<>>
  /\ transitionsByID \in TransitionSets
  /\ now = 1
  /\ conf = BaseConf
  /\ flags = DefaultFlags
  /\ rc = [p \in ConcProcs |-> IdleRec]
  /\ ncalls = 0
  /\ nfaults = 0
  /\ responses = {}
  /\ config = [outcome |-> "clientset",
               jira |-> [id |-> 0, m |-> <<>>],
               readers |-> {},
               nmaps |-> 0,
               nclients |-> 0,
               writes |-> {},
               stored |-> <<>>,
               returned |-> <<>>,
               call |-> [p \in ConcProcs |-> IdleCall]]

ClientsUnchanged ==
  UNCHANGED <<issues, transitionsByID, now, conf, flags, rc, ncalls, nfaults,
              responses>>

\* Lines 78-84 and 43-46: a call for a receiver, or for none, which returns
\* an error at once.
GetOrCreateJira(p) ==
  /\ config.outcome = "clientset"
  /\ config.call[p].pc = "idle"
  /\ Len(config.returned)
       + Cardinality({q \in ConcProcs : config.call[q].pc # "idle"})
         < MaxClientCalls
  /\ \E cf \in ClientReceivers \cup {NilReceiver} :
       IF cf = NilReceiver
       THEN config' = [config EXCEPT !.returned = Append(@,
                         [by |-> p, conf |-> cf, jc |-> NilClient,
                          err |-> "missing receiver config"])]
       ELSE config' = [config EXCEPT !.call[p] = [pc |-> "RLock", conf |-> cf]]
  /\ ClientsUnchanged

\* Line 33: the shared lock, which only a holder of the exclusive lock
\* keeps waiting.
getJira_RLock(p) ==
  /\ config.outcome = "clientset"
  /\ config.call[p].pc = "RLock"
  /\ config' = [config EXCEPT !.readers = @ \cup {p},
                              !.call[p].pc = "IsNil"]
  /\ ClientsUnchanged

\* Line 34: the test of the map.
getJira_IsNil(p) ==
  /\ config.outcome = "clientset"
  /\ config.call[p].pc = "IsNil"
  /\ config' = [config EXCEPT !.call[p].pc =
                  IF config.jira.id = 0 THEN "Init" ELSE "Lookup"]
  /\ ClientsUnchanged

\* Line 35: a new empty map is assigned, by a goroutine that holds the
\* shared lock only.
getJira_Init(p) ==
  /\ config.outcome = "clientset"
  /\ config.call[p].pc = "Init"
  /\ config' = [config EXCEPT
       !.jira = [id |-> config.nmaps + 1, m |-> <<>>],
       !.nmaps = @ + 1,
       !.writes = @ \cup {<<"init", IF p \in config.readers
                                     THEN "RLock" ELSE "none">>},
       !.call[p].pc = "Lookup"]
  /\ ClientsUnchanged

\* Lines 37-40 and 48-50, 79-83: the lookup by user name and the release of
\* the shared lock; a client found is returned, the error that says so
\* being dropped.
getJira_Lookup(p) ==
  /\ config.outcome = "clientset"
  /\ config.call[p].pc = "Lookup"
  /\ LET cf == config.call[p].conf
     IN  IF cf.User \in DOMAIN config.jira.m
         THEN config' = [config EXCEPT
                !.readers = @ \ {p},
                !.returned = Append(@, [by |-> p, conf |-> cf,
                                        jc |-> config.jira.m[cf.User],
                                        err |-> Nil]),
                !.call[p] = IdleCall]
         ELSE config' = [config EXCEPT
                !.readers = @ \ {p},
                !.call[p].pc = "Store"]
  /\ ClientsUnchanged

\* Lines 52-76: the client is built and, under the exclusive lock, stored
\* under the user name; it is what the call returns.
newJira_Store(p) ==
  /\ config.outcome = "clientset"
  /\ config.call[p].pc = "Store"
  /\ config.readers = {}
  /\ LET cf == config.call[p].conf
         client == NewClient(cf, config.nclients + 1)
     IN  config' = [config EXCEPT
           !.jira.m = [u \in DOMAIN @ \cup {cf.User} |->
                         IF u = cf.User THEN client ELSE @[u]],
           !.nclients = @ + 1,
           !.writes = @ \cup {<<"store", "Lock">>},
           !.stored = Append(@, [user |-> cf.User, client |-> client]),
           !.returned = Append(@, [by |-> p, conf |-> cf, jc |-> client,
                                   err |-> Nil]),
           !.call[p] = IdleCall]
  /\ ClientsUnchanged

ClientStep(p) ==
  \/ GetOrCreateJira(p)
  \/ getJira_RLock(p)
  \/ getJira_IsNil(p)
  \/ getJira_Init(p)
  \/ getJira_Lookup(p)
  \/ newJira_Store(p)

\* The calls of one goroutine, one after the other.
SpecClients == ClientsInit /\ [][\E p \in Procs : ClientStep(p)]_vars

\* The calls of two goroutines.
SpecClientsConc == ClientsInit /\ [][\E p \in ConcProcs : ClientStep(p)]_vars

(***************************************************************************)
(* The client a receiver gets.                                             *)
(***************************************************************************)
ReturnedClients ==
  {r \in {config.returned[i] : i \in DOMAIN config.returned} : r.err = Nil}

BuiltFor(jc, cf) ==
  jc.id # 0 /\ jc.APIURL = cf.APIURL /\ jc.auth = Transport(cf)

\* C38: every call for a receiver returns a client that is not nil and was
\* built for that receiver's api_url and credentials, so that two receivers
\* which differ in api_url or in authentication never get the same client.
C38_ClientOfOwnReceiver ==
  config.outcome = "clientset" =>
    /\ \A r \in ReturnedClients : BuiltFor(r.jc, r.conf)
    /\ \A r, s \in ReturnedClients :
         (r.conf.APIURL # s.conf.APIURL \/ Transport(r.conf) # Transport(s.conf))
           => r.jc # s.jc

\* What does hold for calls made one after the other: a call returns the
\* client stored under its receiver's user name, which is not nil and was
\* built for the first receiver that came with that user name.
ClientOfOwnUser ==
  config.outcome = "clientset" =>
    \A i \in DOMAIN config.returned :
      LET r == config.returned[i]
      IN  r.err = Nil =>
            /\ r.jc.id # 0
            /\ r.conf.User \in DOMAIN config.jira.m
            /\ r.jc = config.jira.m[r.conf.User]
            /\ \E j \in 1..i :
                 /\ config.returned[j].conf.User = r.conf.User
                 /\ BuiltFor(r.jc, config.returned[j].conf)
                 /\ \A k \in 1..(j - 1) :
                      config.returned[k].conf.User # r.conf.User

ClientOfOwnUserReached ==
  /\ config.outcome = "clientset"
  /\ \E r, s \in ReturnedClients :
       /\ r.conf.User = "" /\ s.conf.User = ""
       /\ r.conf.PersonalAccessToken # s.conf.PersonalAccessToken
       /\ r.jc = s.jc

\* The clients stored under a user name.
StoredFor(u) ==
  {config.stored[i].client : i \in {j \in DOMAIN config.stored :
                                       config.stored[j].user = u}}

OneClientPerUser ==
  /\ \A r \in ReturnedClients : Cardinality(StoredFor(r.conf.User)) <= 1
  /\ \A r, s \in ReturnedClients : r.conf.User = s.conf.User => r.jc = s.jc

WrittenUnderLockOnly ==
  \A w \in config.writes : w[2] = "Lock"

\* C39: with calls running side by side, at most one client is created and
\* stored for a user and every caller for that user gets it; and the map is
\* written, its initialisation included, under the exclusive lock only.
C39_OneClientPerUserUnderLock ==
  config.outcome = "clientset" => OneClientPerUser /\ WrittenUnderLockOnly

\* The first half of C39 alone, and the second half alone.
OneClientPerUserAlone == config.outcome = "clientset" => OneClientPerUser

WrittenUnderLockOnlyAlone == config.outcome = "clientset" => WrittenUnderLockOnly

\* What does hold with calls side by side: a client is stored under the
\* exclusive lock, with no reader inside; every client returned is not nil
\* and is one of those stored under its receiver's user name; and the map,
\* once there, keeps every user name stored.
ClientsStoredUnderLock ==
  config.outcome = "clientset" =>
    /\ \A w \in config.writes : w[1] = "store" => w[2] = "Lock"
    /\ \A r \in ReturnedClients :
         r.jc.id # 0 /\ r.jc \in StoredFor(r.conf.User)
    /\ \A i \in DOMAIN config.stored :
         config.stored[i].user \in DOMAIN config.jira.m

ClientsStoredUnderLockReached ==
  /\ config.outcome = "clientset"
  /\ \E r, s \in ReturnedClients :
       r.by # s.by /\ r.conf.User = s.conf.User /\ r.jc # s.jc

====
